---- MODULE Spec2Model ----
(***************************************************************************)
(* Model of rndi.connect_business_objects: the helpers (find_by_id, merge, *)
(* make_param, request_model) and the Request / Asset / TierConfiguration  *)
(* facades over a wrapped mapping.                                         *)
(*                                                                         *)
(* Python objects are mutable and shared by reference, so the model keeps  *)
(* an explicit object store: `heap` is a sequence of dict and list         *)
(* objects, an address is an index into it, and a value held inside an     *)
(* object is either a scalar or a reference to another object.             *)
(***************************************************************************)
EXTENDS Integers, Sequences, FiniteSets, TLC

VARIABLES
    heap,     \* the object store: Seq of Dict(..) / List(..) objects
    pre,      \* the object store as it was before the last operation
    facade,   \* which class wraps `data`: "Request", "Asset", ... or "none"
    data,     \* address of the mapping the facade wraps (self._request, ...)
    last,     \* the last call made: its name, its arguments, what it returned or raised
    nops,     \* number of calls made so far
    written,  \* per parameter id: the last non-null scalar value a caller passed for it
    twin,     \* address of a second document, built by single calls (batch comparison)
    todo      \* the single calls still to be made on `twin`

vars == <<heap, pre, facade, data, last, nops, written, twin, todo>>

(***************************************************************************)
(* Bounds of the model.                                                    *)
(***************************************************************************)
MaxMerges == 2
MaxOps == 2
MaxBatches == 2

(***************************************************************************)
(* Python values.  A tree value describes a whole document (what `==`      *)
(* compares); a heap value is a scalar or a reference.                     *)
(***************************************************************************)
None == [t |-> "none"]
Str(s) == [t |-> "str", s |-> s]
Dict(m) == [t |-> "dict", m |-> m]
\* a dictionary with its keys in insertion order: the objects of the store,
\* and the literals whose key order the caller chose
Ordered(m, o) == [t |-> "dict", m |-> m, o |-> o]
List(l) == [t |-> "list", l |-> l]
Ref(a) == [t |-> "ref", a |-> a]
Bool(b) == [t |-> "bool", b |-> b]

EmptyMap == [k \in {} |-> None]

\* d[k] = v  /  d.update({k: v})
Put(m, k, v) == (k :> v) @@ m

\* d.pop(k, None)
Del(m, k) == [x \in (DOMAIN m) \ {k} |-> m[x]]

RECURSIVE SetToSeq(_)
SetToSeq(S) ==
    IF S = {} THEN <<>>
    ELSE LET x == CHOOSE y \in S : TRUE IN <<x>> \o SetToSeq(S \ {x})

NewDict == Ordered(EmptyMap, <<>>)

\* list(d): the keys in insertion order; a literal written without an order
\* is taken in the order SetToSeq gives
KeysOf(tv) == IF "o" \in DOMAIN tv THEN tv.o ELSE SetToSeq(DOMAIN tv.m)

(***************************************************************************)
(* datetime: datetime values, naive or with a fixed-offset timezone,       *)
(* datetime.isoformat() and datetime.fromisoformat() as the interpreter    *)
(* the code runs on (CPython 3.11) computes them, character by character.  *)
(***************************************************************************)
Integer(n) == [t |-> "int", n |-> n]

\* timezone(sign * timedelta(seconds=seconds, microseconds=microseconds))
Timezone(sign, seconds, microseconds) ==
    [t |-> "timezone", sign |-> sign, seconds |-> seconds, microseconds |-> microseconds]
utc == Timezone(1, 0, 0)

\* datetime(year, month, day, hour, minute, second, microsecond), naive
Datetime(year, month, day, hour, minute, second, microsecond) ==
    [t |-> "datetime", year |-> year, month |-> month, day |-> day, hour |-> hour,
     minute |-> minute, second |-> second, microsecond |-> microsecond, tzinfo |-> None]
\* dt.replace(tzinfo=tz)
Aware(dt, tz) == [dt EXCEPT !.tzinfo = tz]

DigitChars == "0123456789"

\* '%0<width>d' % n
RECURSIVE Padded(_, _)
Padded(n, width) ==
    IF width = 0 THEN ""
    ELSE Padded(n \div 10, width - 1) \o SubSeq(DigitChars, (n % 10) + 1, (n % 10) + 1)

\* f'{n}' of a natural number
RECURSIVE format_int(_)
format_int(n) ==
    IF n < 10 THEN SubSeq(DigitChars, n + 1, n + 1)
    ELSE format_int(n \div 10) \o SubSeq(DigitChars, (n % 10) + 1, (n % 10) + 1)

\* _format_offset(off): +HH:MM, then :SS if the offset has seconds or
\* microseconds, then .ffffff if it has microseconds
_format_offset(tz) ==
    IF tz = None THEN ""
    ELSE (IF tz.sign < 0 THEN "-" ELSE "+")
         \o Padded(tz.seconds \div 3600, 2) \o ":" \o Padded((tz.seconds % 3600) \div 60, 2)
         \o (IF tz.seconds % 60 # 0 \/ tz.microseconds # 0
             THEN ":" \o Padded(tz.seconds % 60, 2)
                  \o (IF tz.microseconds # 0 THEN "." \o Padded(tz.microseconds, 6) ELSE "")
             ELSE "")

\* dt.isoformat(): YYYY-MM-DDTHH:MM:SS, then .ffffff unless microsecond is 0,
\* then the UTC offset of an aware datetime
isoformat(dt) ==
    Padded(dt.year, 4) \o "-" \o Padded(dt.month, 2) \o "-" \o Padded(dt.day, 2)
    \o "T" \o Padded(dt.hour, 2) \o ":" \o Padded(dt.minute, 2) \o ":" \o Padded(dt.second, 2)
    \o (IF dt.microsecond = 0 THEN "" ELSE "." \o Padded(dt.microsecond, 6))
    \o _format_offset(dt.tzinfo)

\* the datetimes callers pass
Datetimes ==
    { Datetime(2023, 1, 2, 3, 4, 5, 0), Datetime(2023, 12, 31, 23, 59, 59, 120),
      Datetime(1, 1, 1, 0, 0, 0, 0), Datetime(2024, 2, 29, 10, 0, 0, 0),
      Aware(Datetime(2024, 2, 29, 10, 0, 0, 0), utc),
      Aware(Datetime(2023, 6, 30, 18, 45, 0, 500000), Timezone(1, 19800, 0)),
      Aware(Datetime(9999, 12, 31, 23, 59, 59, 999999), Timezone(-1, 28800, 0)) }

\* s[i], counted from 0; the empty string past the end of s
At(s, i) == IF i < Len(s) THEN SubSeq(s, i + 1, i + 1) ELSE ""
\* s[a:b] and s[a:]
Slice(s, a, b) == SubSeq(s, a + 1, IF b < Len(s) THEN b ELSE Len(s))
SliceFrom(s, a) == SubSeq(s, a + 1, Len(s))

_is_ascii_digit(c) == \E i \in 1..10 : SubSeq(DigitChars, i, i) = c
DigitValue(c) == (CHOOSE i \in 1..10 : SubSeq(DigitChars, i, i) = c) - 1

\* the number the n characters of s from position p write, -1 unless each of
\* them is a digit
RECURSIVE parse_digits(_, _, _)
parse_digits(s, p, n) ==
    IF n = 0 THEN 0
    ELSE IF ~_is_ascii_digit(At(s, p + n - 1)) THEN -1
    ELSE IF parse_digits(s, p, n - 1) < 0 THEN -1
    ELSE parse_digits(s, p, n - 1) * 10 + DigitValue(At(s, p + n - 1))

\* the first position from idx on that holds no digit
RECURSIVE DigitsEnd(_, _)
DigitsEnd(s, idx) ==
    IF idx < Len(s) /\ _is_ascii_digit(At(s, idx)) THEN DigitsEnd(s, idx + 1) ELSE idx

\* the calendar
_is_leap(year) == year % 4 = 0 /\ (year % 100 # 0 \/ year % 400 = 0)
_DAYS_IN_MONTH == <<31, 28, 31, 30, 31, 30, 31, 31, 30, 31, 30, 31>>
_DAYS_BEFORE_MONTH == <<0, 31, 59, 90, 120, 151, 181, 212, 243, 273, 304, 334>>
_days_before_year(year) ==
    (year - 1) * 365 + (year - 1) \div 4 - (year - 1) \div 100 + (year - 1) \div 400
_days_in_month(year, month) ==
    IF month = 2 /\ _is_leap(year) THEN 29 ELSE _DAYS_IN_MONTH[month]
_days_before_month(year, month) ==
    _DAYS_BEFORE_MONTH[month] + (IF month > 2 /\ _is_leap(year) THEN 1 ELSE 0)
_ymd2ord(year, month, day) ==
    _days_before_year(year) + _days_before_month(year, month) + day

\* _ord2ymd(n), with n0 = n - 1: the 400-year, 100-year, 4-year and 1-year
\* cycles before the day, then the month by an estimate that is exact or one
\* too large
_ord2ymd_in_year(year, leapyear, n) ==
    LET estimate == (n + 50) \div 32
        before == _DAYS_BEFORE_MONTH[estimate] + (IF estimate > 2 /\ leapyear THEN 1 ELSE 0)
        month == IF before > n THEN estimate - 1 ELSE estimate
        preceding == _DAYS_BEFORE_MONTH[month] + (IF month > 2 /\ leapyear THEN 1 ELSE 0)
    IN [year |-> year, month |-> month, day |-> n - preceding + 1]
_ord2ymd_cycles(n400, n100, n4, n1, n) ==
    IF n1 = 4 \/ n100 = 4
    THEN [year |-> n400 * 400 + n100 * 100 + n4 * 4 + n1, month |-> 12, day |-> 31]
    ELSE _ord2ymd_in_year(n400 * 400 + 1 + n100 * 100 + n4 * 4 + n1,
                          n1 = 3 /\ (n4 # 24 \/ n100 = 3), n)
_ord2ymd(n) ==
    _ord2ymd_cycles((n - 1) \div 146097,
                    ((n - 1) % 146097) \div 36524,
                    (((n - 1) % 146097) % 36524) \div 1461,
                    ((((n - 1) % 146097) % 36524) % 1461) \div 365,
                    ((((n - 1) % 146097) % 36524) % 1461) % 365)

\* _isoweek1monday(year): the ordinal of the Monday that starts ISO week 1
_isoweek1monday(year) ==
    LET firstday == _ymd2ord(year, 1, 1)
        firstweekday == (firstday + 6) % 7
    IN firstday - firstweekday + (IF firstweekday > 3 THEN 7 ELSE 0)

\* _isoweek_to_gregorian(year, week, day); ok is FALSE for a year, a week or a
\* weekday out of range
_isoweek_to_gregorian(year, week, day) ==
    IF \/ year < 1 \/ year > 9999
       \/ week < 1
       \/ week > 53
       \/ (week = 53 /\ ~(\/ _ymd2ord(year, 1, 1) % 7 = 4
                          \/ (_ymd2ord(year, 1, 1) % 7 = 3 /\ _is_leap(year))))
       \/ day < 1 \/ day > 7
    THEN [ok |-> FALSE, year |-> 0, month |-> 0, day |-> 0]
    ELSE [ok |-> TRUE] @@ _ord2ymd(_isoweek1monday(year) + (week - 1) * 7 + (day - 1))

\* _find_isoformat_datetime_separator(dtstr), len(dtstr) >= 7: where the date
\* ends; -1 for a string no ISO 8601 date starts
_find_isoformat_datetime_separator(dtstr) ==
    IF Len(dtstr) = 7 THEN 7
    ELSE IF At(dtstr, 4) = "-"
    THEN IF At(dtstr, 5) = "W"
         THEN IF Len(dtstr) > 8 /\ At(dtstr, 8) = "-"
              THEN IF Len(dtstr) = 9 THEN -1
                   \* YYYY-Www-D followed by a digit: the date ends at the hyphen
                   ELSE IF Len(dtstr) > 10 /\ _is_ascii_digit(At(dtstr, 10)) THEN 8
                   ELSE 10
              ELSE 8
         ELSE 10
    ELSE IF At(dtstr, 4) = "W"
    \* YYYYWww or YYYYWwwD
    THEN IF DigitsEnd(dtstr, 7) < 9 THEN DigitsEnd(dtstr, 7)
         ELSE IF DigitsEnd(dtstr, 7) % 2 = 0 THEN 7 ELSE 8
    ELSE 8

\* the day of a week date: the characters after YYYY[-]Www
parse_week_day(dtstr, sep, pos) ==
    IF Len(dtstr) <= pos THEN 1
    ELSE IF sep = 1 /\ At(dtstr, pos) # "-" THEN -1
    ELSE parse_digits(dtstr, pos + sep, 1)

\* _parse_isoformat_date(dtstr): YYYY-MM-DD, YYYYMMDD, YYYY-Www[-D], YYYYWww[D]
_parse_isoformat_date(dtstr) ==
    LET year == parse_digits(dtstr, 0, 4)
        sep == IF At(dtstr, 4) = "-" THEN 1 ELSE 0
        pos == 4 + sep
        failed == [ok |-> FALSE, year |-> 0, month |-> 0, day |-> 0]
    IN IF year < 0 THEN failed
       ELSE IF At(dtstr, pos) = "W"
       THEN IF parse_digits(dtstr, pos + 1, 2) < 0 \/ parse_week_day(dtstr, sep, pos + 3) < 0
            THEN failed
            ELSE _isoweek_to_gregorian(year, parse_digits(dtstr, pos + 1, 2),
                                       parse_week_day(dtstr, sep, pos + 3))
       ELSE IF \/ parse_digits(dtstr, pos, 2) < 0
               \/ (sep = 1 /\ At(dtstr, pos + 2) # "-")
               \/ parse_digits(dtstr, pos + 2 + sep, 2) < 0
       THEN failed
       ELSE [ok |-> TRUE, year |-> year, month |-> parse_digits(dtstr, pos, 2),
             day |-> parse_digits(dtstr, pos + 2 + sep, 2)]

\* the fraction of a second from position p of tstr: up to six digits are
\* read, further digits are skipped; rv is -1 for a character that is no
\* digit among the ones read, 1 when something is left, else 0
_FRACTION_CORRECTION == <<100000, 10000, 1000, 100, 10, 1>>
parse_fraction(tstr, p, comps) ==
    LET to_parse == IF Len(tstr) - p >= 6 THEN 6 ELSE Len(tstr) - p
        read == parse_digits(tstr, p, to_parse)
    IN IF read < 0 THEN [rv |-> -1, comps |-> comps]
       ELSE [rv |-> IF DigitsEnd(tstr, p + to_parse) < Len(tstr) THEN 1 ELSE 0,
             comps |-> [comps EXCEPT ![4] = IF to_parse = 0 THEN 0
                                            ELSE read * _FRACTION_CORRECTION[to_parse]]]

\* _parse_hh_mm_ss_ff(tstr): HH[:?MM[:?SS[{.,}fff[fff]]]], component i of the
\* three at position p; answers [rv, comps], rv as parse_fraction gives it
RECURSIVE parse_hh_mm_ss(_, _, _, _, _)
parse_hh_mm_ss(tstr, i, p, has_sep, comps) ==
    IF i = 3 THEN parse_fraction(tstr, p, comps)
    ELSE LET c == At(tstr, p + 2)
             has_separator == IF i = 0 THEN c = ":" ELSE has_sep
         IN IF parse_digits(tstr, p, 2) < 0 THEN [rv |-> -1, comps |-> comps]
            ELSE IF p + 3 >= Len(tstr)
            THEN [rv |-> IF c # "" THEN 1 ELSE 0,
                  comps |-> [comps EXCEPT ![i + 1] = parse_digits(tstr, p, 2)]]
            ELSE IF has_separator /\ c = ":"
            THEN parse_hh_mm_ss(tstr, i + 1, p + 3, has_separator,
                                [comps EXCEPT ![i + 1] = parse_digits(tstr, p, 2)])
            ELSE IF c \in {".", ","}
            THEN parse_fraction(tstr, p + 3, [comps EXCEPT ![i + 1] = parse_digits(tstr, p, 2)])
            ELSE IF ~has_separator
            THEN parse_hh_mm_ss(tstr, i + 1, p + 2, has_separator,
                                [comps EXCEPT ![i + 1] = parse_digits(tstr, p, 2)])
            ELSE [rv |-> -1, comps |-> comps]
_parse_hh_mm_ss_ff(tstr) == parse_hh_mm_ss(tstr, 0, 0, TRUE, <<0, 0, 0, 0>>)

\* where the timezone of a time string starts: the first Z, + or -
RECURSIVE tzinfo_pos(_, _)
tzinfo_pos(tstr, p) ==
    IF p >= Len(tstr) \/ At(tstr, p) \in {"Z", "+", "-"} THEN p ELSE tzinfo_pos(tstr, p + 1)

\* the timezone written from position tz of tstr on: Z, or a sign and an
\* offset HH[:?MM[:?SS[.ffffff]]]; an offset of zero seconds is UTC, whatever
\* its microseconds
parse_timezone(tstr, tz, comps) ==
    LET failed == [ok |-> FALSE, comps |-> comps, tzinfo |-> None]
        off == _parse_hh_mm_ss_ff(SliceFrom(tstr, tz + 1))
        seconds == off.comps[1] * 3600 + off.comps[2] * 60 + off.comps[3]
    IN IF At(tstr, tz) = "Z"
       THEN IF tz + 1 # Len(tstr) THEN failed
            ELSE [ok |-> TRUE, comps |-> comps, tzinfo |-> utc]
       ELSE IF off.rv # 0 THEN failed
       ELSE IF seconds = 0 THEN [ok |-> TRUE, comps |-> comps, tzinfo |-> utc]
       \* timezone(): the offset must be strictly within 24 hours
       ELSE IF seconds >= 86400 THEN failed
       ELSE [ok |-> TRUE, comps |-> comps,
             tzinfo |-> Timezone(IF At(tstr, tz) = "-" THEN -1 ELSE 1, seconds, off.comps[4])]

\* _parse_isoformat_time(tstr): HH[:MM[:SS[.fff[fff]]]][Z or +HH:MM[:SS[.ffffff]]]
parse_time_at(tstr, tz, time) ==
    IF time.rv < 0 THEN [ok |-> FALSE, comps |-> time.comps, tzinfo |-> None]
    ELSE IF tz >= Len(tstr)
    THEN [ok |-> time.rv = 0, comps |-> time.comps, tzinfo |-> None]
    ELSE parse_timezone(tstr, tz, time.comps)
_parse_isoformat_time(tstr) ==
    parse_time_at(tstr, tzinfo_pos(tstr, 0),
                  _parse_hh_mm_ss_ff(Slice(tstr, 0, tzinfo_pos(tstr, 0))))

\* datetime(year, month, day, hour, minute, second, microsecond, tzinfo):
\* ValueError for a field out of range
checked_datetime(date, time) ==
    IF \/ ~date.ok \/ ~time.ok
       \/ date.year < 1 \/ date.year > 9999
       \/ date.month < 1 \/ date.month > 12
       \/ date.day < 1 \/ date.day > _days_in_month(date.year, date.month)
       \/ time.comps[1] > 23 \/ time.comps[2] > 59 \/ time.comps[3] > 59
    THEN [raised |-> "ValueError", v |-> None]
    ELSE [raised |-> "",
          v |-> Aware(Datetime(date.year, date.month, date.day, time.comps[1], time.comps[2],
                               time.comps[3], time.comps[4]), time.tzinfo)]

\* the date up to the separator, the time after it; a string that goes on after
\* the date must hold a time
fromisoformat_at(date_string, separator_location) ==
    IF separator_location < 0 THEN [raised |-> "ValueError", v |-> None]
    ELSE checked_datetime(
             _parse_isoformat_date(Slice(date_string, 0, separator_location)),
             IF Len(date_string) > separator_location
             THEN _parse_isoformat_time(SliceFrom(date_string, separator_location + 1))
             ELSE [ok |-> TRUE, comps |-> <<0, 0, 0, 0>>, tzinfo |-> None])

\* datetime.fromisoformat(v): TypeError unless v is a string, ValueError for
\* a string that is no ISO 8601 date and time; answers [raised, v]
fromisoformat(v) ==
    IF v.t # "str" THEN [raised |-> "TypeError", v |-> None]
    ELSE IF Len(v.s) < 7 THEN [raised |-> "ValueError", v |-> None]
    ELSE fromisoformat_at(v.s, _find_isoformat_datetime_separator(v.s))

\* isinstance(v, dict) / isinstance(v, list) of a heap value
IsDict(h, v) == v.t = "ref" /\ h[v.a].t = "dict"
IsList(h, v) == v.t = "ref" /\ h[v.a].t = "list"

\* The document a heap value stands for (Python's structural equality).
RECURSIVE Val(_, _)
Val(h, v) ==
    IF v.t # "ref" THEN v
    ELSE LET o == h[v.a] IN
         IF o.t = "dict"
         THEN Dict([k \in DOMAIN o.m |-> Val(h, o.m[k])])
         ELSE List([i \in 1..Len(o.l) |-> Val(h, o.l[i])])

\* Build fresh objects for a literal document; returns [h, v].  The members
\* that are scalars need no object of their own.
Scalars(m) == [k \in {x \in DOMAIN m : m[x].t \notin {"dict", "list"}} |-> m[k]]
Nested(m) == {x \in DOMAIN m : m[x].t \in {"dict", "list"}}

RECURSIVE Alloc(_, _), AllocMap(_, _, _, _), AllocSeq(_, _, _)
Alloc(h, tv) ==
    IF tv.t = "dict"
    THEN IF Nested(tv.m) = {}
         THEN [h |-> Append(h, Ordered(tv.m, KeysOf(tv))), v |-> Ref(Len(h) + 1)]
         ELSE LET r == AllocMap(h, tv.m, SetToSeq(Nested(tv.m)), Scalars(tv.m))
              IN [h |-> Append(r.h, Ordered(r.m, KeysOf(tv))), v |-> Ref(Len(r.h) + 1)]
    ELSE IF tv.t = "list"
    THEN IF Nested(tv.l) = {}
         THEN [h |-> Append(h, tv), v |-> Ref(Len(h) + 1)]
         ELSE LET r == AllocSeq(h, tv.l, <<>>)
              IN [h |-> Append(r.h, List(r.l)), v |-> Ref(Len(r.h) + 1)]
    ELSE [h |-> h, v |-> tv]

AllocMap(h, m, ks, acc) ==
    IF ks = <<>> THEN [h |-> h, m |-> acc]
    ELSE LET r == Alloc(h, m[Head(ks)])
         IN AllocMap(r.h, m, Tail(ks), (Head(ks) :> r.v) @@ acc)

AllocSeq(h, l, acc) ==
    IF l = <<>> THEN [h |-> h, l |-> acc]
    ELSE LET r == Alloc(h, Head(l))
         IN AllocSeq(r.h, Tail(l), Append(acc, r.v))

\* Object updates in the store.
\* d[k] = v: a new key goes to the end, a key already there keeps its place
SetKey(h, a, k, v) ==
    [h EXCEPT ![a] = Ordered(Put(h[a].m, k, v),
                             IF k \in DOMAIN h[a].m THEN h[a].o ELSE Append(h[a].o, k))]
PopKey(h, a, k) ==
    [h EXCEPT ![a] = Ordered(Del(h[a].m, k), SelectSeq(h[a].o, LAMBDA x : x # k))]
\* d.update(m), m's keys taken in the order ks
UpdateInOrder(h, a, m, ks) ==
    [h EXCEPT ![a] = Ordered(m @@ h[a].m,
                             h[a].o \o SelectSeq(ks, LAMBDA x : x \in DOMAIN m
                                                                /\ x \notin DOMAIN h[a].m))]
\* d.update(other), other a dictionary literal Ordered(m, o): the keys d
\* has keep their place, the new ones follow in the order other holds them
Update(h, a, other) == UpdateInOrder(h, a, other.m, other.o)
Clear(h, a) == [h EXCEPT ![a] = NewDict]
ListAppend(h, a, v) == [h EXCEPT ![a] = List(Append(h[a].l, v))]

\* list.extend: the elements of the other list are appended (by reference).
Extend_replace(h, a, l) == [h EXCEPT ![a] = List(l)]
Extend(h, a, l) == [h EXCEPT ![a] = List(h[a].l \o l)]

(***************************************************************************)
(* copy.deepcopy: a structurally equal copy made of new objects; the memo  *)
(* keeps sharing inside the copied structure.  Returns [h, memo, v].       *)
(***************************************************************************)
RefKeys(m) == {x \in DOMAIN m : m[x].t = "ref"}
NonRefs(m) == [k \in (DOMAIN m) \ RefKeys(m) |-> m[k]]

RECURSIVE Copy(_, _, _), CopyMap(_, _, _, _, _), CopySeq(_, _, _, _)
Copy(h, memo, v) ==
    IF v.t # "ref" THEN [h |-> h, memo |-> memo, v |-> v]
    ELSE IF v.a \in DOMAIN memo THEN [h |-> h, memo |-> memo, v |-> Ref(memo[v.a])]
    ELSE LET o == h[v.a]
             n == Len(h) + 1
             memo1 == (v.a :> n) @@ memo
         IN IF o.t = "dict"
            THEN LET r == CopyMap(Append(h, NewDict), memo1, o.m,
                                  SelectSeq(o.o, LAMBDA x : x \in RefKeys(o.m)),
                                  NonRefs(o.m))
                 IN [h |-> [r.h EXCEPT ![n] = Ordered(r.m, o.o)], memo |-> r.memo,
                     v |-> Ref(n)]
            ELSE IF RefKeys(o.l) = {}
            THEN [h |-> Append(h, o), memo |-> memo1, v |-> Ref(n)]
            ELSE LET r == CopySeq(Append(h, List(<<>>)), memo1, o.l, <<>>)
                 IN [h |-> [r.h EXCEPT ![n] = List(r.l)], memo |-> r.memo, v |-> Ref(n)]

CopyMap(h, memo, m, ks, acc) ==
    IF ks = <<>> THEN [h |-> h, memo |-> memo, m |-> acc]
    ELSE LET r == Copy(h, memo, m[Head(ks)])
         IN CopyMap(r.h, r.memo, m, Tail(ks), (Head(ks) :> r.v) @@ acc)

CopySeq(h, memo, l, acc) ==
    IF l = <<>> THEN [h |-> h, memo |-> memo, l |-> acc]
    ELSE LET r == Copy(h, memo, Head(l))
         IN CopySeq(r.h, r.memo, Tail(l), Append(acc, r.v))

deepcopy_alias(h, v) == [h |-> h, v |-> v]
deepcopy(h, v) ==
    LET r == Copy(h, <<>>, v) IN [h |-> r.h, v |-> r.v]

(***************************************************************************)
(* helpers.merge(base, override).  base and override are addresses of      *)
(* dicts; returns [h, v] with v the reference to the new dictionary.       *)
(***************************************************************************)
RECURSIVE merge(_, _, _), merge_loop(_, _, _, _)

\* one iteration of `for key, value in override.items()`
merge_key(h, new_base, key, value) ==
    IF key \in DOMAIN h[new_base].m
    THEN LET cur == h[new_base].m[key] IN
         IF IsDict(h, cur) /\ IsDict(h, value)
         THEN LET r == merge(h, cur.a, value.a)
              IN SetKey(r.h, new_base, key, r.v)
         ELSE IF IsList(h, cur) /\ IsList(h, value)
         THEN Extend(h, cur.a, h[value.a].l)
         ELSE SetKey(h, new_base, key, value)
    ELSE SetKey(h, new_base, key, value)

merge_loop_skip_new(h, new_base, override, ks) ==
    IF ks = <<>> THEN [h |-> h, v |-> Ref(new_base)]
    ELSE merge_loop(IF Head(ks) \in DOMAIN h[new_base].m
                    THEN merge_key(h, new_base, Head(ks), h[override].m[Head(ks)])
                    ELSE h,
                    new_base, override, Tail(ks))

merge_loop(h, new_base, override, ks) ==
    IF ks = <<>> THEN [h |-> h, v |-> Ref(new_base)]
    ELSE merge_loop(merge_key(h, new_base, Head(ks), h[override].m[Head(ks)]),
                    new_base, override, Tail(ks))

merge(h, base, override) ==
    LET c == deepcopy(h, Ref(base))
    IN merge_loop(c.h, c.v.a, override, h[override].o)

\* merge(base, override) of any two values: override.items() needs a mapping
\* (AttributeError); once override has a key, `key in new_base` and
\* `new_base[key] = value` need a mapping too (TypeError); answers [h, raised, v]
merge_of(h, base, override) ==
    IF ~IsDict(h, override) THEN [h |-> h, raised |-> "AttributeError", v |-> None]
    ELSE IF IsDict(h, base)
    THEN [h |-> merge(h, base.a, override.a).h, raised |-> "", v |-> merge(h, base.a, override.a).v]
    ELSE IF h[override.a].o = <<>>
    THEN [h |-> deepcopy(h, base).h, raised |-> "", v |-> deepcopy(h, base).v]
    ELSE [h |-> h, raised |-> "TypeError", v |-> None]

\* merge as a function of two literal documents
merge_result(base, override) ==
    LET b == Alloc(<<>>, base)
        o == Alloc(b.h, override)
        r == merge(o.h, b.v.a, o.v.a)
    IN Val(r.h, r.v)

(***************************************************************************)
(* Keyword arguments of a call: a mapping from the names the caller gave   *)
(* to the values; a name the caller left out takes the default of the      *)
(* method's signature.                                                     *)
(***************************************************************************)
Arg(args, name, default) == IF name \in DOMAIN args THEN args[name] ELSE default

\* {k: v for k, v in members.items() if v is not None}
SkipNone(m) == [k \in {x \in DOMAIN m : m[x] # None} |-> m[k]]

(***************************************************************************)
(* helpers.find_by_id: next(filter(lambda element: element['id'] ==        *)
(* element_id, elements)), default on StopIteration.  The filter is lazy:  *)
(* the scan stops at the first element whose id is element_id, and an      *)
(* element met before it that cannot be subscripted with 'id' ends the     *)
(* call with the exception of the subscript.  Returns [raised, v].         *)
(***************************************************************************)
\* element['id'] raises: KeyError for a dict without the key, TypeError
\* for an element that takes no string subscript
SubscriptError(h, element) ==
    IF ~IsDict(h, element) THEN "TypeError"
    ELSE IF "id" \notin DOMAIN h[element.a].m THEN "KeyError"
    ELSE ""

find_by_id_never(h, elements, element_id, default) == [raised |-> "", v |-> default]
find_by_id(h, elements, element_id, default) ==
    LET \* the elements at which the scan ends
        stops == { i \in 1..Len(elements) :
                     \/ SubscriptError(h, elements[i]) # ""
                     \/ h[elements[i].a].m["id"] = element_id }
    IN IF stops = {} THEN [raised |-> "", v |-> default]
       ELSE LET first == CHOOSE i \in stops : \A j \in stops : i <= j
                error == SubscriptError(h, elements[first])
            IN IF error # "" THEN [raised |-> error, v |-> None]
               ELSE [raised |-> "", v |-> elements[first]]

(***************************************************************************)
(* helpers.make_param: the members of a parameter, as a mapping.           *)
(***************************************************************************)
\* the keys of make_param's literal, in the order it writes them
make_param_keys ==
    <<"id", "structured_value", "value", "value_error", "title", "description", "type",
      "scope", "phase">>

make_param_value_only(h, param_id, value, value_error, value_type, title, description, scope, phase) ==
    [k \in {"id", "value", "value_error", "title", "description", "type", "scope", "phase"} |->
        CASE k = "id" -> param_id
          [] k = "value" -> value
          [] k = "value_error" -> value_error
          [] k = "title" ->
                IF title = None THEN Str("Parameter " \o param_id.s \o " title.") ELSE title
          [] k = "description" ->
                IF description = None
                THEN Str("Parameter " \o param_id.s \o " description.") ELSE description
          [] k = "type" -> IF value_type = None THEN Str("text") ELSE value_type
          [] k = "scope" -> scope
          [] k = "phase" -> phase]

make_param(h, param_id, value, value_error, value_type, title, description, scope, phase) ==
    LET value_key == IF IsDict(h, value) \/ IsList(h, value)
                     THEN "structured_value" ELSE "value"
    IN [k \in {"id", value_key, "value_error", "title", "description", "type", "scope", "phase"} |->
        CASE k = "id" -> param_id
          [] k = value_key -> value
          [] k = "value_error" -> value_error
          [] k = "title" ->
                IF title = None THEN Str("Parameter " \o param_id.s \o " title.") ELSE title
          [] k = "description" ->
                IF description = None
                THEN Str("Parameter " \o param_id.s \o " description.") ELSE description
          [] k = "type" -> IF value_type = None THEN Str("text") ELSE value_type
          [] k = "scope" -> scope
          [] k = "phase" -> phase]

(***************************************************************************)
(* The facades.  `cls` names the class, `d` is the address of the mapping  *)
(* it wraps.  A method returns [h, raised, ...]: the store after the call  *)
(* and the exception it raised ("" when it returned).                      *)
(***************************************************************************)
Classes == {"Request", "Asset", "TierConfiguration"}

\* a constructor that keeps one empty document for every null initializer
init_shared_default(h, cls, initializer) ==
    IF initializer = None
    THEN IF \E a \in 1..Len(h) : h[a] = NewDict
         THEN [h |-> h, raised |-> "",
               data |-> CHOOSE a \in 1..Len(h) : h[a] = NewDict]
         ELSE [h |-> Append(h, NewDict), raised |-> "", data |-> Len(h) + 1]
    ELSE IF ~IsDict(h, initializer) THEN [h |-> h, raised |-> "ValueError", data |-> 0]
    ELSE [h |-> h, raised |-> "", data |-> initializer.a]
\* cls.__init__(initializer): {} for None, ValueError unless a dict, else
\* the facade keeps the initializer itself
__init__(h, cls, initializer) ==
    IF initializer = None
    THEN [h |-> Append(h, NewDict), raised |-> "", data |-> Len(h) + 1]
    ELSE IF ~IsDict(h, initializer) THEN [h |-> h, raised |-> "ValueError", data |-> 0]
    ELSE [h |-> h, raised |-> "", data |-> initializer.a]

\* the keyword arguments each class's with_param declares
WithParamKeywords(cls) ==
    IF cls = "Asset"
    THEN {"param_id", "value", "value_error", "value_type", "title", "description"}
    ELSE {"param_id", "value", "value_error", "value_type"}

\* f(**args): a keyword the signature does not declare, or a parameter
\* without a default that args leaves out, is a TypeError raised before
\* the body runs
BindError(args, keywords, required) ==
    ~(DOMAIN args \subseteq keywords) \/ ~(required \subseteq DOMAIN args)

\* the default of value_type in each class's with_param
WithParamDefaultType(cls) == IF cls = "Request" THEN Str("text") ELSE None

\* params(): self._data.get('params', []), as the sequence of its elements
params(h, d) ==
    IF "params" \in DOMAIN h[d].m THEN h[h[d].m["params"].a].l ELSE <<>>

\* what param and configuration_param do with `found`, the outcome of
\* find_by_id: if parameter is None: raise MissingParameterError(...);
\* return parameter if key is None else parameter.get(key, default)
found_parameter(h, found, param_id, key, default) ==
    IF found.raised # "" THEN [raised |-> found.raised, parameter |-> None, v |-> None]
    ELSE IF found.v = None
    THEN [raised |-> "MissingParameterError", parameter |-> param_id, v |-> None]
    ELSE [raised |-> "", parameter |-> None,
          v |-> IF key = None THEN found.v ELSE Arg(h[found.v.a].m, key.s, default)]

\* param(param_id, key, default)
param(h, d, param_id, key, default) ==
    found_parameter(h, find_by_id(h, params(h, d), param_id, None), param_id, key, default)

\* self.params() + [param]
params_plus_front(old, new) == <<new>> \o old
params_plus(old, new) == old \o <<new>>

\* with_param(**args)
with_param(h, d, cls, args) ==
    IF BindError(args, WithParamKeywords(cls), {"param_id"})
    THEN [h |-> h, raised |-> "TypeError"]
    ELSE
    LET param_id == args["param_id"]
        found == param(h, d, param_id, None, None)
        missing == found.raised = "MissingParameterError"
        \* except MissingParameterError: param = {'id': param_id}; update params
        a == Len(h) + 1
        h1 == IF missing
              THEN LET hp == Append(h, Ordered([k \in {"id"} |-> param_id], <<"id">>))
                       hl == Append(hp, List(params_plus(params(hp, d), Ref(a))))
                   IN SetKey(hl, d, "params", Ref(a + 1))
              ELSE h
        target == IF missing THEN a ELSE found.v.a
        members == make_param(h1, param_id,
                              Arg(args, "value", None),
                              Arg(args, "value_error", None),
                              Arg(args, "value_type", WithParamDefaultType(cls)),
                              Arg(args, "title", None),
                              Arg(args, "description", None),
                              None, None)
    IN \* only MissingParameterError is caught
       IF found.raised \notin {"", "MissingParameterError"}
       THEN [h |-> h, raised |-> found.raised]
       ELSE [h |-> UpdateInOrder(h1, target, SkipNone(members), make_param_keys),
             raised |-> ""]

\* with_params(params): for param in params: self.with_param(**param)
RECURSIVE with_params(_, _, _, _)
with_params(h, d, cls, ps) ==
    IF ps = <<>> THEN [h |-> h, raised |-> ""]
    \* **param of an entry that is no mapping
    ELSE IF ~IsDict(h, Head(ps)) THEN [h |-> h, raised |-> "TypeError"]
    \* the entries before one that raises stay written
    ELSE LET r == with_param(h, d, cls, h[Head(ps).a].m)
         IN IF r.raised # "" THEN r ELSE with_params(r.h, d, cls, Tail(ps))

(***************************************************************************)
(* Configuration parameters (Asset, TierConfiguration).                    *)
(***************************************************************************)
\* the keyword arguments each class's with_configuration_param accepts
WithConfigurationParamKeywords(cls) ==
    IF cls = "Asset"
    THEN {"param_id", "value", "value_error", "value_type", "title", "description"}
    ELSE {"param_id", "value", "value_error", "value_type"}

\* a configuration_params that answers the document's own params
configuration_params_top(h, d) == params(h, d)
\* configuration_params(): self._data.get('configuration', {}).get('params', [])
configuration_params(h, d) ==
    IF "configuration" \in DOMAIN h[d].m
    THEN LET c == h[d].m["configuration"].a
         IN IF "params" \in DOMAIN h[c].m THEN h[h[c].m["params"].a].l ELSE <<>>
    ELSE <<>>

\* configuration_param(param_id, key, default)
configuration_param(h, d, param_id, key, default) ==
    found_parameter(h, find_by_id(h, configuration_params(h, d), param_id, None),
                    param_id, key, default)

\* with_configuration_param(**args)
with_configuration_param(h, d, cls, args) ==
    IF BindError(args, WithConfigurationParamKeywords(cls), {"param_id"})
    THEN [h |-> h, raised |-> "TypeError"]
    ELSE
    LET param_id == args["param_id"]
        \* if 'configuration' not in self._data: self._data.update({'configuration': {}})
        h1 == IF "configuration" \notin DOMAIN h[d].m
              THEN SetKey(Append(h, NewDict), d, "configuration", Ref(Len(h) + 1))
              ELSE h
        conf == h1[d].m["configuration"].a
        \* if 'params' not in configuration: configuration.update({'params': []})
        h2 == IF "params" \notin DOMAIN h1[conf].m
              THEN SetKey(Append(h1, List(<<>>)), conf, "params", Ref(Len(h1) + 1))
              ELSE h1
        plist == h2[conf].m["params"].a
        found == configuration_param(h2, d, param_id, None, None)
        missing == found.raised = "MissingParameterError"
        a == Len(h2) + 1
        h3 == IF missing
              THEN ListAppend(Append(h2, Ordered([k \in {"id"} |-> param_id], <<"id">>)), plist, Ref(a))
              ELSE h2
        target == IF missing THEN a ELSE found.v.a
        members == make_param(h3, param_id,
                              Arg(args, "value", None),
                              Arg(args, "value_error", None),
                              Arg(args, "value_type", None),
                              Arg(args, "title", None),
                              Arg(args, "description", None),
                              None, None)
    IN \* only MissingParameterError is caught; configuration and its params
       \* list are in place by then
       IF found.raised \notin {"", "MissingParameterError"}
       THEN [h |-> h2, raised |-> found.raised]
       ELSE [h |-> UpdateInOrder(h3, target, SkipNone(members), make_param_keys),
             raised |-> ""]

\* with_configuration_params(params)
RECURSIVE with_configuration_params(_, _, _, _)
with_configuration_params(h, d, cls, ps) ==
    IF ps = <<>> THEN [h |-> h, raised |-> ""]
    ELSE IF ~IsDict(h, Head(ps)) THEN [h |-> h, raised |-> "TypeError"]
    ELSE LET r == with_configuration_param(h, d, cls, h[Head(ps).a].m)
         IN IF r.raised # "" THEN r ELSE with_configuration_params(r.h, d, cls, Tail(ps))

(***************************************************************************)
(* Items and item parameters (Asset).                                      *)
(***************************************************************************)
\* items(): self._asset.get('items', [])
items(h, d) ==
    IF "items" \in DOMAIN h[d].m THEN h[h[d].m["items"].a].l ELSE <<>>

\* what item does with `found`, the outcome of find_by_id: if item is None:
\* raise MissingItemError(...); return item if key is None else
\* item.get(key, default)
found_item(h, found, item_id, key, default) ==
    IF found.raised # "" THEN [raised |-> found.raised, item |-> None, v |-> None]
    ELSE IF found.v = None
    THEN [raised |-> "MissingItemError", item |-> item_id, v |-> None]
    ELSE [raised |-> "", item |-> None,
          v |-> IF key = None THEN found.v ELSE Arg(h[found.v.a].m, key.s, default)]

\* item(item_id, key, default)
item(h, d, item_id, key, default) ==
    found_item(h, find_by_id(h, items(h, d), item_id, None), item_id, key, default)

\* the keyword arguments with_item_param accepts
WithItemParamKeywords ==
    {"item_id", "param_id", "value", "value_type", "title", "description", "scope", "phase"}

\* with_item_param(item_id, **args): item_id given twice, a keyword the
\* signature does not declare or no param_id is a TypeError, raised before
\* the body runs
with_item_param(h, d, item_id, args) ==
    IF BindError(args, WithItemParamKeywords \ {"item_id"}, {"param_id"})
    THEN [h |-> h, raised |-> "TypeError", item |-> None]
    ELSE
    LET param_id == args["param_id"]
        it == item(h, d, item_id, None, None)
    IN IF it.raised # "" THEN [h |-> h, raised |-> it.raised, item |-> it.item]
       ELSE
       LET has_list == "params" \in DOMAIN h[it.v.a].m
           \* item.get('params', [])
           plist == IF has_list THEN h[h[it.v.a].m["params"].a].l ELSE <<>>
           scan == find_by_id(h, plist, param_id, None)
           found == scan.v
           a == Len(h) + 1
           hp == Append(h, Ordered([k \in {"id"} |-> param_id], <<"id">>))
           \* item.get('params', []).append(param): without a 'params' key the
           \* element goes into a list nothing else refers to
           h1 == IF found # None THEN h
                 ELSE IF has_list THEN ListAppend(hp, h[it.v.a].m["params"].a, Ref(a))
                 ELSE Append(hp, List(<<Ref(a)>>))
           target == IF found = None THEN a ELSE found.a
           members == make_param(h1, param_id,
                                 Arg(args, "value", None),
                                 None,
                                 Arg(args, "value_type", None),
                                 Arg(args, "title", None),
                                 Arg(args, "description", None),
                                 \* 'item' if scope is None else scope
                                 IF Arg(args, "scope", None) = None
                                 THEN Str("item") ELSE args["scope"],
                                 \* 'configuration' if phase is None else phase
                                 IF Arg(args, "phase", None) = None
                                 THEN Str("configuration") ELSE args["phase"])
       IN IF scan.raised # "" THEN [h |-> h, raised |-> scan.raised, item |-> None]
          ELSE [h |-> UpdateInOrder(h1, target, SkipNone(members), make_param_keys),
                raised |-> "", item |-> None]

\* asset.with_item_param(item_id, **args)
call_with_item_param(h, d, item_id, args) == with_item_param(h, d, item_id, args)

\* with_item_params(item_id, params)
RECURSIVE with_item_params(_, _, _, _)
with_item_params(h, d, item_id, ps) ==
    IF ps = <<>> THEN [h |-> h, raised |-> "", item |-> None]
    ELSE IF ~IsDict(h, Head(ps)) THEN [h |-> h, raised |-> "TypeError", item |-> None]
    ELSE LET \* {'item_id': item_id, **param}: the entry's own item_id wins
             kw == h[Head(ps).a].m @@ ("item_id" :> item_id)
         IN IF BindError(kw, WithItemParamKeywords, {"item_id", "param_id"})
            \* a keyword with_item_param does not declare, or no param_id
            THEN [h |-> h, raised |-> "TypeError", item |-> None]
            ELSE LET r == with_item_param(h, d, kw["item_id"], Del(kw, "item_id"))
                 IN IF r.raised # "" THEN r
                    ELSE with_item_params(r.h, d, item_id, Tail(ps))

\* the keyword arguments with_item declares
WithItemKeywords ==
    {"item_id", "item_mpn", "quantity", "old_quantity", "item_type", "period", "unit",
     "display_name", "global_id", "params"}

\* with_item(**args)
with_item(h, d, args) ==
    IF BindError(args, WithItemKeywords, {"item_id", "item_mpn"})
    THEN [h |-> h, raised |-> "TypeError", item |-> None]
    ELSE
    LET item_id == args["item_id"]
        found == item(h, d, item_id, None, None)
        missing == found.raised = "MissingItemError"
        a == Len(h) + 1
        h1 == IF missing
              THEN LET hi == Append(h, Ordered([k \in {"id"} |-> item_id], <<"id">>))
                       hl == Append(hi, List(items(hi, d) \o <<Ref(a)>>))
                   IN SetKey(hl, d, "items", Ref(a + 1))
              ELSE h
        target == IF missing THEN a ELSE found.v.a
        \* 'params': [] is a new list, and it is not None
        h2 == Append(h1, List(<<>>))
        members ==
            [k \in {"global_id", "display_name", "mpn", "quantity", "old_quantity",
                    "params", "item_type", "period", "type"} |->
                CASE k = "global_id" -> Arg(args, "global_id", None)
                  [] k = "display_name" -> Arg(args, "display_name", None)
                  [] k = "mpn" -> args["item_mpn"]
                  [] k = "quantity" -> Arg(args, "quantity", Str("1"))
                  [] k = "old_quantity" -> Arg(args, "old_quantity", None)
                  [] k = "params" -> Ref(Len(h2))
                  [] k = "item_type" -> Arg(args, "item_type", None)
                  [] k = "period" -> Arg(args, "period", None)
                  [] k = "type" -> Arg(args, "unit", None)]
        h3 == UpdateInOrder(h2, target, SkipNone(members),
                            <<"global_id", "display_name", "mpn", "quantity", "old_quantity",
                              "params", "item_type", "period", "type">>)
        ps == Arg(args, "params", None)
    IN \* only MissingItemError is caught
       IF found.raised \notin {"", "MissingItemError"}
       THEN [h |-> h, raised |-> found.raised, item |-> None]
       ELSE with_item_params(h3, d, item_id, IF ps = None THEN <<>> ELSE h3[ps.a].l)

\* with_items(items)
RECURSIVE with_items(_, _, _)
with_items(h, d, its) ==
    IF its = <<>> THEN [h |-> h, raised |-> "", item |-> None]
    ELSE IF ~IsDict(h, Head(its)) THEN [h |-> h, raised |-> "TypeError", item |-> None]
    ELSE LET r == with_item(h, d, h[Head(its).a].m)
         IN IF r.raised # "" THEN r ELSE with_items(r.h, d, Tail(its))

(***************************************************************************)
(* Specification of merge on its own: two documents are built, then merge  *)
(* is called on any two of the dictionaries at hand (the two inputs and    *)
(* the last result), so results that share objects with an earlier         *)
(* override are merged again.                                              *)
(***************************************************************************)
MergeValuesA ==
    { Str("x"), Str("y"), List(<<Str("x")>>),
      List(<<Str("y"), Dict([k \in {"id"} |-> Str("x")])>>),
      Dict(EmptyMap), Dict([k \in {"a"} |-> Str("x")]),
      Dict([k \in {"a"} |-> List(<<Str("y")>>)]) }
MergeValuesB == { Str("y"), List(<<Str("x")>>) }
MergeDocs ==
    { Dict(m) : m \in UNION { [S -> MergeValuesA \cup MergeValuesB] : S \in SUBSET {"a", "b"} } }
    \cap
    { Dict(m) : m \in UNION { { f \in [S -> MergeValuesA \cup MergeValuesB] :
                                  /\ "a" \in S => f["a"] \in MergeValuesA
                                  /\ "b" \in S => f["b"] \in MergeValuesB } :
                              S \in SUBSET {"a", "b"} } }

\* the orders in which a caller can have written the keys of a document
KeyOrders(d) ==
    { s \in [1..Cardinality(DOMAIN d.m) -> DOMAIN d.m] :
        \A i, j \in DOMAIN s : i # j => s[i] # s[j] }
OrderedMergeDocs == UNION { { Ordered(d.m, s) : s \in KeyOrders(d) } : d \in MergeDocs }

MergeInit ==
    \E b, o \in OrderedMergeDocs :
        LET rb == Alloc(<<>>, b)
            ro == Alloc(rb.h, o)
        IN /\ heap = ro.h
           /\ pre = ro.h
           /\ facade = "none"
           /\ data = 0
           /\ last = [op |-> "init", base |-> rb.v.a, override |-> ro.v.a, result |-> 0]
           /\ nops = 0
           /\ written = EmptyMap
           /\ twin = 0
           /\ todo = <<>>

Merge(b, o) ==
    /\ nops < MaxMerges
    /\ LET r == merge(heap, b, o)
       IN /\ heap' = r.h
          /\ pre' = heap
          /\ last' = [op |-> "merge", base |-> b, override |-> o, result |-> r.v.a]
    /\ nops' = nops + 1
    /\ UNCHANGED <<facade, data, written, twin, todo>>

MergeNext ==
    \E b, o \in {last.base, last.override, last.result} \ {0} : Merge(b, o)

SpecMerge == MergeInit /\ [][MergeNext]_vars

(***************************************************************************)
(* Specification of the parameter upserts: a facade of one of the three    *)
(* classes is constructed over a document, then with_param, with_params,   *)
(* with_configuration_param, with_item and with_item_param are called on   *)
(* it with arguments drawn from small sets.                                *)
(***************************************************************************)
P1 == Str("P1")
P2 == Str("P2")
ParamIds == {P1, P2}
I1 == Str("I1")
NestedValue == Dict([k \in {"nested"} |-> Str("1")])
ListValue == List(<<Str("x")>>)
ScalarValues == {Str("A"), Str("B"), Str("")}
StructuredValues == {NestedValue, ListValue}

\* a parameter as the platform sends it
FullParam(id, v) ==
    Dict(("id" :> id) @@ ("value" :> v) @@ ("value_error" :> Str("E0"))
         @@ ("title" :> Str("T0")) @@ ("description" :> Str("D0")) @@ ("type" :> Str("email")))
StructuredParam(id) == Dict(("id" :> id) @@ ("structured_value" :> NestedValue))

EmptyDoc == Dict(EmptyMap)
ParamsDoc ==
    Dict(("id" :> Str("X-1")) @@ ("params" :> List(<<FullParam(P1, Str("A")), StructuredParam(P2)>>)))
ConfigurationDoc ==
    Dict(("configuration" :>
            Dict(("id" :> Str("TC-1")) @@ ("params" :> List(<<FullParam(P1, Str("A"))>>))))
         @@ ("params" :> List(<<StructuredParam(P2)>>)))

\* a configuration that has no parameters yet
BareConfigurationDoc == Dict("configuration" :> Dict("id" :> Str("TC-1")))

InitDocs(cls) ==
    IF cls = "Request" THEN {EmptyDoc, ParamsDoc}
    ELSE {EmptyDoc, ParamsDoc, ConfigurationDoc, BareConfigurationDoc}

\* keyword arguments of one upsert call, as a literal mapping
OptionalArgs ==
    { <<"value_error", Str("E")>>, <<"value_type", Str("password")>>,
      <<"title", Str("T")>>, <<"description", Str("D")>> }
ParamInputs(keywords) ==
    { Dict("param_id" :> i) : i \in ParamIds }
    \cup { Dict(("param_id" :> i) @@ ("value" :> v)) :
              i \in ParamIds, v \in ScalarValues \cup StructuredValues }
    \cup { Dict(("param_id" :> P1) @@ (o[1] :> o[2])) :
              o \in { x \in OptionalArgs : x[1] \in keywords } }

\* lists of keyword mappings for the batch call
ParamListInputs ==
    { List(<<>>),
      List(<<Dict(("param_id" :> P1) @@ ("value" :> Str("A"))),
             Dict(("param_id" :> P1) @@ ("value" :> Str("B")))>>),
      List(<<Dict(("param_id" :> P2) @@ ("value" :> Str("A")) @@ ("value_error" :> Str("E"))),
             Dict(("param_id" :> P1) @@ ("value" :> NestedValue)),
             Dict(("param_id" :> P2) @@ ("value_error" :> Str("E2")))>>),
      List(<<Dict(("param_id" :> P1) @@ ("value" :> ListValue)),
             Dict(("param_id" :> P1) @@ ("value" :> Str("")))>>) }

ItemInputs ==
    { Dict(("item_id" :> I1) @@ ("item_mpn" :> Str("M1"))) }
ItemParamInputs ==
    { Dict(("param_id" :> P1) @@ ("value" :> v)) : v \in {Str("A"), NestedValue} }
    \cup { Dict(("param_id" :> P1) @@ ("value" :> Str("B"))
               @@ ("scope" :> None) @@ ("phase" :> None)),
           Dict(("param_id" :> P1) @@ ("scope" :> Str("asset")) @@ ("phase" :> None)) }

\* the scalar values a list of keyword mappings passes, per id, later ones last
RECURSIVE Written(_, _)
Written(w, l) ==
    IF l = <<>> THEN w
    ELSE LET e == Head(l).m
         IN Written(IF "value" \in DOMAIN e /\ e["value"].t = "str"
                    THEN [w EXCEPT ![e["param_id"].s] = e["value"]] ELSE w,
                    Tail(l))

ParamsInit ==
    \E cls \in Classes : \E doc \in InitDocs(cls) :
        LET r == Alloc(<<>>, doc)
        IN /\ heap = r.h
           /\ pre = r.h
           /\ facade = cls
           /\ data = r.v.a
           /\ last = [op |-> "init", args |-> doc, raised |-> ""]
           /\ nops = 0
           /\ written = [i \in {"P1", "P2"} |-> None]
           /\ twin = 0
           /\ todo = <<>>

\* facade.with_param(**args)
WithParam(targs) ==
    /\ nops < MaxOps
    /\ LET al == AllocMap(heap, targs.m, SetToSeq(DOMAIN targs.m), EmptyMap)
           r == with_param(al.h, data, facade, al.m)
       IN /\ heap' = r.h
          /\ last' = [op |-> "with_param", args |-> targs, raised |-> r.raised]
    /\ pre' = heap
    /\ written' = Written(written, <<targs>>)
    /\ nops' = nops + 1
    /\ UNCHANGED <<facade, data, twin, todo>>

\* facade.with_params(list)
WithParams(tlist) ==
    /\ nops < MaxOps
    /\ LET al == Alloc(heap, tlist)
           r == with_params(al.h, data, facade, al.h[al.v.a].l)
       IN /\ heap' = r.h
          /\ last' = [op |-> "with_params", args |-> tlist, raised |-> r.raised]
    /\ pre' = heap
    /\ written' = Written(written, tlist.l)
    /\ nops' = nops + 1
    /\ UNCHANGED <<facade, data, twin, todo>>

\* facade.with_configuration_param(**args)
WithConfigurationParam(targs) ==
    /\ nops < MaxOps
    /\ facade \in {"Asset", "TierConfiguration"}
    /\ LET al == AllocMap(heap, targs.m, SetToSeq(DOMAIN targs.m), EmptyMap)
           r == with_configuration_param(al.h, data, facade, al.m)
       IN /\ heap' = r.h
          /\ last' = [op |-> "with_configuration_param", args |-> targs, raised |-> r.raised]
    /\ pre' = heap
    /\ nops' = nops + 1
    /\ UNCHANGED <<facade, data, written, twin, todo>>

\* asset.with_item(**args)
WithItem(targs) ==
    /\ nops < MaxOps
    /\ facade = "Asset"
    /\ LET al == AllocMap(heap, targs.m, SetToSeq(DOMAIN targs.m), EmptyMap)
           r == with_item(al.h, data, al.m)
       IN /\ heap' = r.h
          /\ last' = [op |-> "with_item", args |-> targs, raised |-> r.raised]
    /\ pre' = heap
    /\ nops' = nops + 1
    /\ UNCHANGED <<facade, data, written, twin, todo>>

\* asset.with_item_param(item_id, **args)
WithItemParam(item_id, targs) ==
    /\ nops < MaxOps
    /\ facade = "Asset"
    /\ LET al == AllocMap(heap, targs.m, SetToSeq(DOMAIN targs.m), EmptyMap)
           r == with_item_param(al.h, data, item_id, al.m)
       IN /\ heap' = r.h
          /\ last' = [op |-> "with_item_param",
                      args |-> Dict(targs.m @@ ("item_id" :> item_id)), raised |-> r.raised]
    /\ pre' = heap
    /\ nops' = nops + 1
    /\ UNCHANGED <<facade, data, written, twin, todo>>

ParamsNext ==
    \/ \E targs \in ParamInputs(WithParamKeywords(facade)) : WithParam(targs)
    \/ \E tlist \in ParamListInputs : WithParams(tlist)
    \/ \E targs \in ParamInputs(WithConfigurationParamKeywords(facade)) :
          WithConfigurationParam(targs)
    \/ \E targs \in ItemInputs : WithItem(targs)
    \/ \E targs \in ItemParamInputs : WithItemParam(I1, targs)

SpecParams == ParamsInit /\ [][ParamsNext]_vars

\* the same, started from the empty document only
ParamsInitEmpty == ParamsInit /\ heap = <<NewDict>>
SpecParamsEmpty == ParamsInitEmpty /\ [][ParamsNext]_vars

----------------------------------------------------------------------------
(* Claims about merge, checked under SpecMerge.                            *)

\* C1: merge never mutates its inputs: after merge(base, override) the
\* documents base and override stand for are what they were before the call.
C1_MergeKeepsInputs ==
    last.op = "merge" =>
        /\ Val(heap, Ref(last.base)) = Val(pre, Ref(last.base))
        /\ Val(heap, Ref(last.override)) = Val(pre, Ref(last.override))

\* a merge whose base and override hold a list and a mapping under the same key
C1_Witness ==
    /\ last.op = "merge"
    /\ last.base # last.override
    /\ \E k \in DOMAIN pre[last.base].m \cap DOMAIN pre[last.override].m :
           /\ IsList(pre, pre[last.base].m[k])
           /\ IsList(pre, pre[last.override].m[k])
    /\ \E k \in DOMAIN pre[last.base].m \cap DOMAIN pre[last.override].m :
           /\ IsDict(pre, pre[last.base].m[k])
           /\ IsDict(pre, pre[last.override].m[k])
           /\ pre[pre[last.override].m[k].a].m # EmptyMap

\* The deep merge the specification describes, on documents.
RECURSIVE ReferenceMerge(_, _)
ReferenceMerge(b, o) ==
    Dict([k \in (DOMAIN b.m) \cup (DOMAIN o.m) |->
            IF k \notin DOMAIN o.m THEN b.m[k]
            ELSE IF k \notin DOMAIN b.m THEN o.m[k]
            ELSE IF b.m[k].t = "dict" /\ o.m[k].t = "dict" THEN ReferenceMerge(b.m[k], o.m[k])
            ELSE IF b.m[k].t = "list" /\ o.m[k].t = "list" THEN List(b.m[k].l \o o.m[k].l)
            ELSE o.m[k]])

\* C2: the result of merge(base, override) is the reference deep merge of
\* the two documents: recursive on mappings, concatenating on sequences,
\* override's value otherwise.
C2_MergeIsReferenceMerge ==
    last.op = "merge" =>
        Val(heap, Ref(last.result))
            = ReferenceMerge(Val(pre, Ref(last.base)), Val(pre, Ref(last.override)))

\* a merge that concatenated two non-empty sequences under a shared key
C2_Witness ==
    /\ last.op = "merge"
    /\ \E k \in DOMAIN pre[last.base].m \cap DOMAIN pre[last.override].m :
           /\ IsList(pre, pre[last.base].m[k])
           /\ IsList(pre, pre[last.override].m[k])
           /\ Len(heap[heap[last.result].m[k].a].l)
                = Len(pre[pre[last.base].m[k].a].l) + Len(pre[pre[last.override].m[k].a].l)
           /\ Len(heap[heap[last.result].m[k].a].l) >= 2

\* C3: identity laws: merge(d, {}) = d and merge({}, d) = d.
C3_MergeIdentity ==
    last.op = "merge" =>
        /\ Val(pre, Ref(last.override)) = Dict(EmptyMap)
              => Val(heap, Ref(last.result)) = Val(pre, Ref(last.base))
        /\ Val(pre, Ref(last.base)) = Dict(EmptyMap)
              => Val(heap, Ref(last.result)) = Val(pre, Ref(last.override))

\* merge({}, d) was called with a d that holds a nested mapping
C3_Witness ==
    /\ last.op = "merge"
    /\ Val(pre, Ref(last.base)) = Dict(EmptyMap)
    /\ \E k \in DOMAIN pre[last.override].m : IsDict(pre, pre[last.override].m[k])

----------------------------------------------------------------------------
(* Claims about the parameter upserts, checked under SpecParams.           *)

\* the wrapped document now and before the last call
Doc == Val(heap, Ref(data))
PreDoc == Val(pre, Ref(data))

Absent == [t |-> "absent"]
Field(e, f) == IF f \in DOMAIN e.m THEN e.m[f] ELSE Absent

DocParams(doc) == IF "params" \in DOMAIN doc.m THEN doc.m["params"].l ELSE <<>>
DocConfigurationParams(doc) ==
    IF "configuration" \in DOMAIN doc.m /\ "params" \in DOMAIN doc.m["configuration"].m
    THEN doc.m["configuration"].m["params"].l ELSE <<>>
DocItems(doc) == IF "items" \in DOMAIN doc.m THEN doc.m["items"].l ELSE <<>>
ElementParams(e) == IF "params" \in DOMAIN e.m THEN e.m["params"].l ELSE <<>>

\* the list the last upsert worked on
TargetParams(doc) ==
    IF last.op = "with_param" THEN DocParams(doc) ELSE DocConfigurationParams(doc)

IndexesOf(l, id) == { i \in 1..Len(l) : "id" \in DOMAIN l[i].m /\ l[i].m["id"] = id }
\* every element of the list carries an id, as the data model requires
WellKeyed(l) == \A i \in 1..Len(l) : "id" \in DOMAIN l[i].m
DocWellKeyed(doc) ==
    /\ WellKeyed(DocParams(doc))
    /\ WellKeyed(DocConfigurationParams(doc))
    /\ WellKeyed(DocItems(doc))
    /\ \A i \in 1..Len(DocItems(doc)) : WellKeyed(ElementParams(DocItems(doc)[i]))
FirstOf(l, id) == l[CHOOSE i \in IndexesOf(l, id) : \A j \in IndexesOf(l, id) : i <= j]
FieldOf(l, id, f) == IF IndexesOf(l, id) = {} THEN Absent ELSE Field(FirstOf(l, id), f)

\* whether the last call passed a non-null argument for field f of a parameter
Supplied(f) ==
    LET a == last.args.m
    IN CASE f = "value" -> "value" \in DOMAIN a /\ a["value"].t = "str"
         [] f = "structured_value" -> "value" \in DOMAIN a /\ a["value"].t \in {"dict", "list"}
         [] f = "type" -> "value_type" \in DOMAIN a
         [] OTHER -> f \in DOMAIN a

PatchFields == {"value", "structured_value", "value_error", "title", "description", "type"}

\* C4: an upsert of a parameter id already in the list changes only the fields
\* for which a non-null argument was passed; value, structured_value,
\* value_error, title, description and type otherwise keep their values.
C4_UpsertIsPartialPatch ==
    (/\ last.op \in {"with_param", "with_configuration_param"}
     /\ IndexesOf(TargetParams(PreDoc), last.args.m["param_id"]) # {})
    => \A f \in PatchFields :
          ~Supplied(f) =>
              FieldOf(TargetParams(Doc), last.args.m["param_id"], f)
                = FieldOf(TargetParams(PreDoc), last.args.m["param_id"], f)

\* C5: with_param on an id already present keeps the length of params, the
\* position of every element and the contents of the other elements; on a new
\* id it appends one element at the end and leaves the existing ones as they were.
C5_UpsertKeepsOrder ==
    last.op = "with_param" =>
        LET id == last.args.m["param_id"]
            old == DocParams(PreDoc)
            new == DocParams(Doc)
        IN IF IndexesOf(old, id) # {}
           THEN /\ Len(new) = Len(old)
                /\ \A i \in 1..Len(old) :
                      /\ new[i].m["id"] = old[i].m["id"]
                      /\ old[i].m["id"] # id => new[i] = old[i]
           ELSE /\ Len(new) = Len(old) + 1
                /\ SubSeq(new, 1, Len(old)) = old
                /\ new[Len(new)].m["id"] = id

\* the second of two parameters has been updated in place
C5_Witness ==
    /\ last.op = "with_param"
    /\ Len(DocParams(PreDoc)) = 2
    /\ last.args.m["param_id"] = DocParams(PreDoc)[2].m["id"]
    /\ DocParams(Doc)[2] # DocParams(PreDoc)[2]

\* C6: the ids in params stay pairwise distinct, and param(id, 'value') is the
\* value of the most recent call for that id that passed a non-null scalar.
C6_DistinctIdsLastWriteWins ==
    /\ \A i, j \in 1..Len(DocParams(Doc)) :
          i # j => DocParams(Doc)[i].m["id"] # DocParams(Doc)[j].m["id"]
    /\ \A id \in ParamIds :
          written[id.s] # None =>
              LET r == param(heap, data, id, Str("value"), None)
              IN r.raised = "" /\ r.v = written[id.s]

\* with_param('P1', 'A') then with_param('P1', 'B'): one parameter P1, value 'B'
C6_Witness ==
    /\ last.op = "with_param"
    /\ last.args.m = (("param_id" :> P1) @@ ("value" :> Str("B")))
    /\ IndexesOf(DocParams(PreDoc), P1) # {}
    /\ FieldOf(DocParams(PreDoc), P1, "value") = Str("A")
    /\ Cardinality(IndexesOf(DocParams(Doc), P1)) = 1
    /\ param(heap, data, P1, Str("value"), None).v = Str("B")

\* C8: with_param(id, v) writes v under structured_value and leaves the value
\* field alone when v is a mapping or a sequence, and writes v under value and
\* leaves the structured_value field alone when v is a non-null scalar.
C8_ValueRule ==
    (last.op = "with_param" /\ "value" \in DOMAIN last.args.m) =>
        LET id == last.args.m["param_id"]
            v == last.args.m["value"]
            written_key == IF v.t \in {"dict", "list"} THEN "structured_value" ELSE "value"
            other_key == IF v.t \in {"dict", "list"} THEN "value" ELSE "structured_value"
        IN /\ FieldOf(DocParams(Doc), id, written_key) = v
           /\ FieldOf(DocParams(Doc), id, other_key) = FieldOf(DocParams(PreDoc), id, other_key)

\* a new parameter given a mapping: structured_value is set and there is no value
C8_Witness ==
    /\ last.op = "with_param"
    /\ "value" \in DOMAIN last.args.m
    /\ last.args.m["value"] = NestedValue
    /\ IndexesOf(DocParams(PreDoc), last.args.m["param_id"]) = {}
    /\ FieldOf(DocParams(Doc), last.args.m["param_id"], "structured_value") = NestedValue
    /\ FieldOf(DocParams(Doc), last.args.m["param_id"], "value") = Absent

\* every parameter element of the document: params, configuration.params and
\* the params of each item
AllParamElements(doc) ==
    { DocParams(doc)[i] : i \in 1..Len(DocParams(doc)) }
    \cup { DocConfigurationParams(doc)[i] : i \in 1..Len(DocConfigurationParams(doc)) }
    \cup UNION { { ElementParams(DocItems(doc)[k])[i] :
                     i \in 1..Len(ElementParams(DocItems(doc)[k])) } :
                 k \in 1..Len(DocItems(doc)) }

\* C9: no parameter element of a document built from the empty document holds
\* both a value field and a structured_value field.
C9_ValueXorStructuredValue ==
    \A e \in AllParamElements(Doc) :
        ~("value" \in DOMAIN e.m /\ "structured_value" \in DOMAIN e.m)

----------------------------------------------------------------------------
(***************************************************************************)
(* Specification of the batch upserts.  Two equal documents are built;     *)
(* a batch call (with_params, with_configuration_params, with_items,       *)
(* with_item_params) is made on the facade over `data`, and the caller     *)
(* then makes the corresponding single call once per entry, in list order, *)
(* on a facade of the same class over `twin`.  An exception ends the       *)
(* caller's sequence, as it ends the batch call's loop.                    *)
(***************************************************************************)
I2 == Str("I2")
I3 == Str("I3")

\* an asset with an item that has parameters and an item without a params key
ItemsDoc ==
    Dict("items" :> List(<<
        Dict(("id" :> I1) @@ ("mpn" :> Str("M0")) @@ ("quantity" :> Str("7"))
             @@ ("params" :> List(<<Dict(("id" :> P1) @@ ("value" :> Str("A")))>>))),
        Dict(("id" :> I2) @@ ("mpn" :> Str("M0")))>>))

BatchDocs(cls) ==
    IF cls = "Asset" THEN InitDocs(cls) \cup {ItemsDoc} ELSE InitDocs(cls)

ItemParamListInputs ==
    { List(<<>>),
      List(<<Dict(("param_id" :> P1) @@ ("value" :> Str("B"))),
             Dict(("param_id" :> P2) @@ ("value" :> NestedValue) @@ ("title" :> Str("T"))),
             Dict(("param_id" :> P2) @@ ("value" :> Str("A")))>>),
      List(<<Dict(("param_id" :> P2) @@ ("value" :> Str("A")) @@ ("scope" :> Str("asset"))),
             Dict(("param_id" :> P2) @@ ("value" :> Str("B")))>>),
      \* an entry that names an item itself
      List(<<Dict(("item_id" :> Str("I1")) @@ ("param_id" :> P2) @@ ("value" :> Str("A")))>>),
      \* an entry with a keyword with_item_param does not declare
      List(<<Dict(("param_id" :> P1) @@ ("value" :> Str("B"))),
             Dict(("param_id" :> P2) @@ ("value_error" :> Str("E")))>>) }

ItemListInputs ==
    { List(<<>>),
      List(<<Dict(("item_id" :> I1) @@ ("item_mpn" :> Str("M1"))
                  @@ ("params" :> List(<<Dict(("param_id" :> P1) @@ ("value" :> Str("B")))>>))),
             Dict(("item_id" :> I1) @@ ("item_mpn" :> Str("M2")))>>),
      List(<<Dict(("item_id" :> I3) @@ ("item_mpn" :> Str("M1")) @@ ("quantity" :> Str("5"))),
             Dict(("item_id" :> I2) @@ ("item_mpn" :> Str("M2"))),
             Dict(("item_id" :> I3) @@ ("item_mpn" :> Str("M3"))
                  @@ ("params" :> List(<<Dict(("param_id" :> P1) @@ ("value" :> Str("A"))),
                                         Dict(("param_id" :> P1) @@ ("value" :> NestedValue))>>)))>>) }

\* lists with an entry the single upsert cannot be called with: a keyword it
\* does not declare (create, scope; title on Request and TierConfiguration)
\* or no param_id
UnboundParamListInputs ==
    { List(<<Dict(("param_id" :> P2) @@ ("value" :> Str("ok"))),
             Dict(("param_id" :> P1) @@ ("create" :> Bool(FALSE)))>>),
      List(<<Dict(("param_id" :> P1) @@ ("title" :> Str("T")))>>),
      List(<<Dict(("param_id" :> P1) @@ ("scope" :> Str("x")))>>),
      List(<<Dict("value" :> Str("no id"))>>) }
\* the same for with_item: the keyword mpn, or no item_mpn
UnboundItemListInputs ==
    { List(<<Dict(("item_id" :> I3) @@ ("item_mpn" :> Str("M3"))),
             Dict(("item_id" :> I2) @@ ("mpn" :> Str("M4")))>>),
      List(<<Dict(("item_id" :> I3) @@ ("item_mpn" :> Str("M3"))),
             Dict("item_id" :> I1)>>),
      List(<<Dict("item_mpn" :> Str("M3"))>>) }

\* the single calls that correspond to a batch call
Singles(op, item_id, l) == [i \in 1..Len(l) |-> [op |-> op, item_id |-> item_id, args |-> l[i]]]

BatchInit ==
    \E cls \in Classes : \E doc \in BatchDocs(cls) :
        LET r == Alloc(<<>>, doc)
            t == Alloc(r.h, doc)
        IN /\ heap = t.h
           /\ pre = t.h
           /\ facade = cls
           /\ data = r.v.a
           /\ twin = t.v.a
           /\ last = [op |-> "init", item_id |-> None, args |-> doc, raised |-> ""]
           /\ nops = 0
           /\ written = [i \in {"P1", "P2"} |-> None]
           /\ todo = <<>>

\* the batch call `op` on the facade over `data`, r its outcome
Batch(op, single, item_id, tlist, r) ==
    /\ heap' = r.h
    /\ pre' = heap
    /\ last' = [op |-> op, item_id |-> item_id, args |-> tlist, raised |-> r.raised]
    /\ todo' = Singles(single, item_id, tlist.l)
    /\ nops' = nops + 1
    /\ UNCHANGED <<facade, data, twin, written>>

BatchWithParams(tlist) ==
    /\ nops < MaxBatches /\ todo = <<>>
    /\ LET al == Alloc(heap, tlist)
       IN Batch("with_params", "with_param", None, tlist,
                with_params(al.h, data, facade, al.h[al.v.a].l))

BatchWithConfigurationParams(tlist) ==
    /\ nops < MaxBatches /\ todo = <<>>
    /\ facade = "Asset"
    /\ LET al == Alloc(heap, tlist)
       IN Batch("with_configuration_params", "with_configuration_param", None, tlist,
                with_configuration_params(al.h, data, facade, al.h[al.v.a].l))

BatchWithItems(tlist) ==
    /\ nops < MaxBatches /\ todo = <<>>
    /\ facade = "Asset"
    /\ LET al == Alloc(heap, tlist)
       IN Batch("with_items", "with_item", None, tlist,
                with_items(al.h, data, al.h[al.v.a].l))

BatchWithItemParams(item_id, tlist) ==
    /\ nops < MaxBatches /\ todo = <<>>
    /\ facade = "Asset"
    /\ LET al == Alloc(heap, tlist)
       IN Batch("with_item_params", "with_item_param", item_id, tlist,
                with_item_params(al.h, data, item_id, al.h[al.v.a].l))

\* the next single call of the caller's sequence, r its outcome
Single(r) ==
    /\ heap' = r.h
    /\ todo' = IF r.raised # "" THEN <<>> ELSE Tail(todo)
    /\ UNCHANGED <<pre, facade, data, twin, last, nops, written>>

SingleWithParam ==
    /\ todo # <<>> /\ Head(todo).op = "with_param"
    /\ LET al == Alloc(heap, Head(todo).args)
       IN Single(with_param(al.h, twin, facade, al.h[al.v.a].m))

SingleWithConfigurationParam ==
    /\ todo # <<>> /\ Head(todo).op = "with_configuration_param"
    /\ LET al == Alloc(heap, Head(todo).args)
       IN Single(with_configuration_param(al.h, twin, facade, al.h[al.v.a].m))

SingleWithItem ==
    /\ todo # <<>> /\ Head(todo).op = "with_item"
    /\ LET al == Alloc(heap, Head(todo).args)
       IN Single(with_item(al.h, twin, al.h[al.v.a].m))

SingleWithItemParam ==
    /\ todo # <<>> /\ Head(todo).op = "with_item_param"
    /\ LET al == Alloc(heap, Head(todo).args)
       IN Single(call_with_item_param(al.h, twin, Head(todo).item_id, al.h[al.v.a].m))

BatchNext ==
    \/ \E tlist \in ParamListInputs \cup UnboundParamListInputs : BatchWithParams(tlist)
    \/ \E tlist \in ParamListInputs \cup UnboundParamListInputs :
          BatchWithConfigurationParams(tlist)
    \/ \E tlist \in ItemListInputs \cup UnboundItemListInputs : BatchWithItems(tlist)
    \/ \E i \in {I1, I2, I3} : \E tlist \in ItemParamListInputs : BatchWithItemParams(i, tlist)
    \/ SingleWithParam
    \/ SingleWithConfigurationParam
    \/ SingleWithItem
    \/ SingleWithItemParam

SpecBatch == BatchInit /\ [][BatchNext]_vars

----------------------------------------------------------------------------
(* Claims about the batch upserts, checked under SpecBatch.                *)

\* the collection a batch call upserts into
BatchTarget(doc) ==
    CASE last.op = "with_params" -> DocParams(doc)
      [] last.op = "with_configuration_params" -> DocConfigurationParams(doc)
      [] last.op = "with_items" -> DocItems(doc)
      [] last.op = "with_item_params" ->
            IF IndexesOf(DocItems(doc), last.item_id) = {} THEN <<>>
            ELSE ElementParams(FirstOf(DocItems(doc), last.item_id))
      [] OTHER -> <<>>

\* the id an entry of a batch list names (None when it names none)
EntryId(e) ==
    Arg(e.m, IF last.op = "with_items" THEN "item_id" ELSE "param_id", None)

\* the fields of the element an entry supplies, as field name -> value
EntryFields(e) ==
    LET a == e.m
        name(k) == CASE k = "value" -> IF a[k].t = "str" THEN "value" ELSE "structured_value"
                     [] k = "value_type" -> "type"
                     [] k = "item_mpn" -> "mpn"
                     [] OTHER -> k
        ks == (DOMAIN a) \ {"param_id", "item_id", "params"}
    IN [f \in { name(k) : k \in ks } |-> a[CHOOSE k \in ks : name(k) = f]]

\* C7: a batch upsert leaves the document as the single upserts, called once
\* per entry in list order, leave an equal document; it creates no duplicate
\* element, and where entries share an id the element holds the fields the
\* last of them supplied.  (The element is looked at where the collection
\* holds one: an item mapping without a params list stores no parameter, by
\* either route.)
\* The caller's single call for an entry of with_item_params(I, L) is
\* with_item_param(I, **entry).
C7_BatchIsSequential ==
    (last.op \in {"with_params", "with_configuration_params", "with_items", "with_item_params"}
     /\ todo = <<>>)
    => /\ Val(heap, Ref(data)) = Val(heap, Ref(twin))
       /\ \A j \in 1..Len(last.args.l) :
             LET e == last.args.l[j]
                 id == EntryId(e)
                 target == BatchTarget(Doc)
             IN /\ id # None =>
                     Cardinality(IndexesOf(target, id))
                     <= IF IndexesOf(BatchTarget(PreDoc), id) = {} THEN 1
                        ELSE Cardinality(IndexesOf(BatchTarget(PreDoc), id))
                /\ (/\ last.raised = ""
                    /\ IndexesOf(target, id) # {}
                    /\ \A k \in (j + 1)..Len(last.args.l) : EntryId(last.args.l[k]) # id)
                   => \A f \in DOMAIN EntryFields(e) :
                          Field(FirstOf(target, id), f) = EntryFields(e)[f]

\* a batch of three entries, two of them for the same id, has been replayed
\* entry by entry on the twin document and changed the document
C7_Witness ==
    /\ last.op \in {"with_params", "with_configuration_params", "with_items", "with_item_params"}
    /\ todo = <<>>
    /\ Len(last.args.l) = 3
    /\ \E i, j \in 1..3 : i < j /\ EntryId(last.args.l[i]) = EntryId(last.args.l[j])
    /\ Doc # PreDoc
    /\ Cardinality({ EntryId(last.args.l[i]) : i \in 1..3 }) = Len(BatchTarget(Doc))

----------------------------------------------------------------------------
(* request_model: the classification of a request document, and the        *)
(* Request operations that change what it looks at.                        *)

MaxCalls == 2

\* the rule list literal of request_model, in its order
Models ==
    << [request |-> "asset", object |-> "asset",
        types |-> <<"adjustment", "purchase", "change", "suspend", "resume", "cancel">>],
       [request |-> "tier-config", object |-> "configuration",
        types |-> <<"setup">>] >>

\* get(key, default): self._request.get(key, default); key is a string or
\* None, which no document has for a key
get(h, d, key, default) ==
    IF key.t = "str" /\ key.s \in DOMAIN h[d].m THEN h[d].m[key.s] ELSE default

\* match_request_type(model): the object key is in the request, or the
\* request's type is one of the model's types
match_request_type(h, d, model) ==
    \/ model.object \in DOMAIN h[d].m
    \/ \E i \in 1..Len(model.types) : Arg(h[d].m, "type", None) = Str(model.types[i])

\* taking the last rule that matches instead of the first one
request_model_last_match(h, d) ==
    LET matches == SelectSeq(Models, LAMBDA model : match_request_type(h, d, model))
    IN IF matches = <<>> THEN "undefined" ELSE matches[Len(matches)].request
\* next(filter(match_request_type, [...])).get('request'), 'undefined' on StopIteration
request_model(h, d) ==
    LET matches == SelectSeq(Models, LAMBDA model : match_request_type(h, d, model))
    IN IF matches = <<>> THEN "undefined" ELSE Head(matches).request

\* Request.with_type(request_type)
with_type(h, d, request_type) == Update(h, d, Ordered("type" :> request_type, <<"type">>))

\* a with_asset that stores a copy of the mapping it is given
with_asset_copy(h, d, asset) ==
    LET c == deepcopy(h, asset) IN Update(c.h, d, Ordered("asset" :> c.v, <<"asset">>))
\* Request.with_asset(asset), asset a dict
with_asset(h, d, asset) == Update(h, d, Ordered("asset" :> asset, <<"asset">>))

\* Request.with_tier_configuration(configuration), configuration a dict
with_tier_configuration(h, d, configuration) == Update(h, d, Ordered("configuration" :> configuration, <<"configuration">>))

\* a without that empties the whole mapping
without_all(h, d, key) == Clear(h, d)
\* Request.without(key): pop(key, None)
without(h, d, key) == IF key \in DOMAIN h[d].m THEN PopKey(h, d, key) ELSE h

\* the request types of the platform, and strings that are none of them
RequestTypes == {"adjustment", "purchase", "change", "suspend", "resume", "cancel", "setup"}
OtherTypes == {"other", "Purchase", ""}
TypeInputs == { Str(t) : t \in RequestTypes \cup OtherTypes }
ModelKeys == {"asset", "configuration", "type"}

\* every combination of asset key, configuration key and type
ModelDocs ==
    { Dict([k \in ks |-> Dict(EmptyMap)] @@ ty) :
        ks \in SUBSET {"asset", "configuration"},
        ty \in {EmptyMap} \cup { "type" :> t : t \in TypeInputs } }

ModelInit ==
    \E doc \in ModelDocs :
        LET r == Alloc(<<>>, doc)
        IN /\ heap = r.h
           /\ pre = r.h
           /\ facade = "Request"
           /\ data = r.v.a
           /\ last = [op |-> "init", args |-> doc, result |-> ""]
           /\ nops = 0
           /\ written = [i \in {"P1", "P2"} |-> None]
           /\ twin = 0
           /\ todo = <<>>

\* a call on the request that changes the document
ModelCall(op, targ, h) ==
    /\ nops < MaxCalls
    /\ heap' = h
    /\ pre' = heap
    /\ last' = [op |-> op, args |-> targ, result |-> ""]
    /\ nops' = nops + 1
    /\ UNCHANGED <<facade, data, written, twin, todo>>

WithType(t) == ModelCall("with_type", t, with_type(heap, data, t))

WithAsset ==
    LET al == Alloc(heap, Dict(EmptyMap))
    IN ModelCall("with_asset", Dict(EmptyMap), with_asset(al.h, data, al.v))

WithTierConfiguration ==
    LET al == Alloc(heap, Dict(EmptyMap))
    IN ModelCall("with_tier_configuration", Dict(EmptyMap),
                 with_tier_configuration(al.h, data, al.v))

Without(key) == ModelCall("without", Str(key), without(heap, data, key))

\* request.request_model(): request_model(self.raw())
RequestModel ==
    /\ last.op # "request_model"
    /\ last' = [op |-> "request_model", args |-> None, result |-> request_model(heap, data)]
    /\ pre' = heap
    /\ UNCHANGED <<heap, facade, data, nops, written, twin, todo>>

ModelNext ==
    \/ \E t \in TypeInputs : WithType(t)
    \/ WithAsset
    \/ WithTierConfiguration
    \/ \E key \in ModelKeys : Without(key)
    \/ RequestModel

SpecModel == ModelInit /\ [][ModelNext]_vars

----------------------------------------------------------------------------
(* Claim about request_model, checked under SpecModel.                     *)

\* the classifier as the claim states it
ReferenceClassifier(doc) ==
    IF \/ "asset" \in DOMAIN doc.m
       \/ Field(doc, "type") \in { Str(t) : t \in {"adjustment", "purchase", "change",
                                                    "suspend", "resume", "cancel"} }
    THEN "asset"
    ELSE IF "configuration" \in DOMAIN doc.m \/ Field(doc, "type") = Str("setup")
         THEN "tier-config"
         ELSE "undefined"

\* C10: request_model(d) is 'asset' when d has an asset key or its type is one
\* of adjustment, purchase, change, suspend, resume, cancel; otherwise
\* 'tier-config' when d has a configuration key or its type is setup;
\* otherwise 'undefined'; a document matching both rules is 'asset'.
C10_RequestModelIsReference ==
    last.op = "request_model"
    => /\ last.result = ReferenceClassifier(Doc)
       /\ ("asset" \in DOMAIN Doc.m /\ "configuration" \in DOMAIN Doc.m)
          => last.result = "asset"

\* a document that matches the tier-config rule by its configuration key and
\* the asset rule by its type has been classified as 'asset'
C10_Witness ==
    /\ last.op = "request_model"
    /\ "configuration" \in DOMAIN Doc.m
    /\ "asset" \notin DOMAIN Doc.m
    /\ Field(Doc, "type") = Str("purchase")
    /\ last.result = "asset"

----------------------------------------------------------------------------
(* The Request facade: its classification projections and the mutations    *)
(* that leave the classification alone.                                    *)

\* the tier-config rule alone, whatever the asset rule says
is_tier_config_request_by_rule(h, d) == match_request_type(h, d, Models[2])
\* Request.is_tier_config_request: 'tier-config' == self.request_model()
is_tier_config_request(h, d) == "tier-config" = request_model(h, d)

\* Request.is_asset_request: 'asset' == self.request_model()
is_asset_request(h, d) == "asset" = request_model(h, d)

\* Request.with_id(request_id)
with_id(h, d, request_id) == Update(h, d, Ordered("id" :> request_id, <<"id">>))

\* Request.with_status(request_status)
with_status(h, d, request_status) == Update(h, d, Ordered("status" :> request_status, <<"status">>))

WithId == ModelCall("with_id", Str("PR-1"), with_id(heap, data, Str("PR-1")))

WithStatus(st) == ModelCall("with_status", st, with_status(heap, data, st))

\* request.with_param(param_id, value)
RequestWithParam(id, v) ==
    LET al == Alloc(heap, v)
        r == with_param(al.h, data, "Request", ("param_id" :> id) @@ ("value" :> al.v))
    IN ModelCall("with_param", Dict(("param_id" :> id) @@ ("value" :> v)), r.h)

\* the three classification calls, made one after the other
Classify ==
    /\ last.op # "classify"
    /\ last' = [op |-> "classify", args |-> None,
                result |-> [request_model |-> request_model(heap, data),
                            is_asset_request |-> is_asset_request(heap, data),
                            is_tier_config_request |-> is_tier_config_request(heap, data)]]
    /\ pre' = heap
    /\ UNCHANGED <<heap, facade, data, nops, written, twin, todo>>

RequestNext ==
    \/ \E t \in TypeInputs : WithType(t)
    \/ WithAsset
    \/ WithTierConfiguration
    \/ \E key \in ModelKeys : Without(key)
    \/ WithId
    \/ \E st \in {Str("pending"), Str("approved")} : WithStatus(st)
    \/ \E v \in {Str("A"), NestedValue} : RequestWithParam(P1, v)
    \/ Classify

SpecRequest == ModelInit /\ [][RequestNext]_vars

----------------------------------------------------------------------------
(* Claim about the classification of a Request, checked under SpecRequest. *)

\* what request_model looks at: the type field and which of the two keys exist
ModelInputs(doc) == <<Field(doc, "type"), {"asset", "configuration"} \cap DOMAIN doc.m>>

\* C11: is_asset_request() is true exactly when request_model() is 'asset',
\* is_tier_config_request() exactly when it is 'tier-config', never both; a
\* call changes the model only if it changes the type field or the presence
\* of the asset / configuration key; after with_asset the request is an asset
\* request and not a tier-config request, whatever its type.
C11_ClassificationInvariant ==
    /\ last.op = "classify" =>
          /\ last.result.is_asset_request <=> (last.result.request_model = "asset")
          /\ last.result.is_tier_config_request <=> (last.result.request_model = "tier-config")
          /\ ~(last.result.is_asset_request /\ last.result.is_tier_config_request)
    /\ ~(is_asset_request(heap, data) /\ is_tier_config_request(heap, data))
    /\ request_model(heap, data) # request_model(pre, data)
          => ModelInputs(Doc) # ModelInputs(PreDoc)
    /\ last.op = "with_asset" =>
          is_asset_request(heap, data) /\ ~is_tier_config_request(heap, data)

\* a request of type setup with a configuration has been given an asset: it
\* was a tier-config request and is an asset request now
C11_Witness ==
    /\ last.op = "with_asset"
    /\ Field(Doc, "type") = Str("setup")
    /\ "configuration" \in DOMAIN Doc.m
    /\ is_tier_config_request(pre, data)
    /\ is_asset_request(heap, data)
    /\ ~is_tier_config_request(heap, data)

----------------------------------------------------------------------------
(* Lookups by id.  A lookup returns [raised, item / parameter, v]: the     *)
(* exception class it raised ("" when it returned), the id the exception   *)
(* carries in its `item` / `parameter` attribute, and the value returned.  *)

\* item_params(item_id): self.item(item_id, 'params', []), as a sequence
item_params(h, d, item_id) ==
    LET r == item(h, d, item_id, Str("params"), List(<<>>))
    IN IF r.raised # "" THEN r
       ELSE [r EXCEPT !.v = IF r.v.t = "ref" THEN h[r.v.a].l ELSE r.v.l]

\* item_param(item_id, param_id, key, default)
item_param(h, d, item_id, param_id, key, default) ==
    LET ps == item_params(h, d, item_id)
    IN IF ps.raised # "" THEN ps
       ELSE LET scan == find_by_id(h, ps.v, param_id, None)
                found == scan.v
            IN IF scan.raised # "" THEN [raised |-> scan.raised, item |-> None, v |-> None]
               ELSE IF found = None
               THEN [raised |-> "MissingItemError", item |-> item_id, v |-> None]
               ELSE [raised |-> "", item |-> None,
                     v |-> IF key = None THEN found ELSE Arg(h[found.a].m, key.s, default)]

\* the id an exception carries: MissingItemError.item, MissingParameterError.parameter
Carried(r) ==
    IF r.raised = "MissingItemError" THEN r.item
    ELSE IF r.raised = "MissingParameterError" THEN r.parameter
    ELSE None

ItemIds == {I1, I2, I3}
LookupKeys == {None, Str("value")}

\* documents that hold an element without id, after and before the
\* element with an id, in each of the four lists
Unkeyed == Dict("name" :> Str("no id"))
UnkeyedLastDoc ==
    Dict(("params" :> List(<<FullParam(P1, Str("A")), Unkeyed>>))
         @@ ("configuration" :> Dict("params" :> List(<<FullParam(P1, Str("A")), Unkeyed>>)))
         @@ ("items" :> List(<<
                Dict(("id" :> I1) @@ ("mpn" :> Str("M0"))
                     @@ ("params" :> List(<<FullParam(P1, Str("A")), Unkeyed>>))),
                Unkeyed>>)))
UnkeyedFirstDoc ==
    Dict(("params" :> List(<<Unkeyed, FullParam(P1, Str("A"))>>))
         @@ ("configuration" :> Dict("params" :> List(<<Unkeyed, FullParam(P1, Str("A"))>>)))
         @@ ("items" :> List(<<
                Unkeyed,
                Dict(("id" :> I1) @@ ("mpn" :> Str("M0"))
                     @@ ("params" :> List(<<Unkeyed, FullParam(P1, Str("A"))>>)))>>)))
LookupDocs(cls) == BatchDocs(cls) \cup {UnkeyedLastDoc, UnkeyedFirstDoc}

LookupInit ==
    \E cls \in Classes : \E doc \in LookupDocs(cls) :
        LET r == Alloc(<<>>, doc)
        IN /\ heap = r.h
           /\ pre = r.h
           /\ facade = cls
           /\ data = r.v.a
           /\ last = [op |-> "init", args |-> EmptyMap, raised |-> "", carried |-> None,
                      v |-> None]
           /\ nops = 0
           /\ written = [i \in {"P1", "P2"} |-> None]
           /\ twin = 0
           /\ todo = <<>>

\* a call that may change the document; r is what it returned or raised
LookupCall(op, args, r, v) ==
    /\ heap' = r.h
    /\ pre' = heap
    /\ last' = [op |-> op, args |-> args, raised |-> r.raised, carried |-> Carried(r), v |-> v]
    /\ nops' = nops + 1
    /\ UNCHANGED <<facade, data, written, twin, todo>>

\* a lookup: r is what it returned or raised; the returned value is recorded
\* as the tree it denotes
Lookup(op, args, r) ==
    /\ heap' = heap
    /\ pre' = heap
    /\ last' = [op |-> op, args |-> args, raised |-> r.raised, carried |-> Carried(r),
                v |-> IF r.raised # "" THEN None
                      ELSE IF op = "item_params"
                           THEN List([i \in 1..Len(r.v) |-> Val(heap, r.v[i])])
                           ELSE Val(heap, r.v)]
    /\ UNCHANGED <<facade, data, nops, written, twin, todo>>

\* facade.with_param(param_id, 'A')
LookupWithParam(id) ==
    /\ nops < MaxOps
    /\ LookupCall("with_param", "param_id" :> id,
                  with_param(heap, data, facade, ("param_id" :> id) @@ ("value" :> Str("A"))),
                  None)

\* facade.with_configuration_param(param_id, 'A')
LookupWithConfigurationParam(id) ==
    /\ nops < MaxOps
    /\ facade \in {"Asset", "TierConfiguration"}
    /\ LookupCall("with_configuration_param", "param_id" :> id,
                  with_configuration_param(heap, data, facade,
                                           ("param_id" :> id) @@ ("value" :> Str("A"))),
                  None)

\* asset.with_item(item_id, 'M1')
LookupWithItem(id) ==
    /\ nops < MaxOps
    /\ facade = "Asset"
    /\ LookupCall("with_item", "item_id" :> id,
                  with_item(heap, data, ("item_id" :> id) @@ ("item_mpn" :> Str("M1"))),
                  None)

\* asset.with_item_param(item_id, param_id, v)
LookupWithItemParam(iid, pid, v) ==
    /\ nops < MaxOps
    /\ facade = "Asset"
    /\ LET al == Alloc(heap, v)
       IN LookupCall("with_item_param", ("item_id" :> iid) @@ ("param_id" :> pid),
                     with_item_param(al.h, data, iid, ("param_id" :> pid) @@ ("value" :> al.v)),
                     v)

\* facade.param(param_id, key)
Param(id, key) ==
    Lookup("param", ("param_id" :> id) @@ ("key" :> key), param(heap, data, id, key, None))

\* facade.configuration_param(param_id, key)
ConfigurationParam(id, key) ==
    /\ facade \in {"Asset", "TierConfiguration"}
    /\ Lookup("configuration_param", ("param_id" :> id) @@ ("key" :> key),
              configuration_param(heap, data, id, key, None))

\* asset.item(item_id, key)
Item(id, key) ==
    /\ facade = "Asset"
    /\ Lookup("item", ("item_id" :> id) @@ ("key" :> key), item(heap, data, id, key, None))

\* asset.item_params(item_id)
ItemParams(id) ==
    /\ facade = "Asset"
    /\ Lookup("item_params", "item_id" :> id, item_params(heap, data, id))

\* asset.item_param(item_id, param_id, key)
ItemParam(iid, pid, key) ==
    /\ facade = "Asset"
    /\ Lookup("item_param", ("item_id" :> iid) @@ ("param_id" :> pid) @@ ("key" :> key),
              item_param(heap, data, iid, pid, key, None))

LookupNext ==
    \/ \E id \in ParamIds : LookupWithParam(id)
    \/ \E id \in ParamIds : LookupWithConfigurationParam(id)
    \/ \E id \in {I1, I3} : LookupWithItem(id)
    \/ \E iid \in ItemIds : \E pid \in ParamIds : \E v \in {Str("V"), NestedValue} :
          LookupWithItemParam(iid, pid, v)
    \/ \E id \in ParamIds : \E key \in LookupKeys : Param(id, key)
    \/ \E id \in ParamIds : \E key \in LookupKeys : ConfigurationParam(id, key)
    \/ \E id \in ItemIds : \E key \in {None, Str("mpn")} : Item(id, key)
    \/ \E id \in ItemIds : ItemParams(id)
    \/ \E iid \in ItemIds : \E pid \in ParamIds : \E key \in LookupKeys : ItemParam(iid, pid, key)

SpecLookup == LookupInit /\ [][LookupNext]_vars

----------------------------------------------------------------------------
(* Claims about lookups by id, checked under SpecLookup.                   *)

\* the list a lookup searches
LookupTarget(doc) ==
    CASE last.op = "param" -> DocParams(doc)
      [] last.op = "configuration_param" -> DocConfigurationParams(doc)
      [] OTHER -> DocItems(doc)

LookupId == IF last.op = "item" THEN last.args["item_id"] ELSE last.args["param_id"]

\* C12: param(id) and configuration_param(id) raise MissingParameterError, and
\* item(id) raises MissingItemError, exactly when no element of the list has
\* that id; the failure carries the id, and the document is as it was.
C12_FailedLookup ==
    last.op \in {"param", "configuration_param", "item"} =>
        LET missing == IF last.op = "item" THEN "MissingItemError"
                       ELSE "MissingParameterError"
        IN /\ (last.raised = missing) <=> (IndexesOf(LookupTarget(PreDoc), LookupId) = {})
           /\ last.raised = missing => last.carried = LookupId
           /\ Doc = PreDoc
           /\ heap = pre

\* C13: item_param(I, P), item_params(I) and with_item_param(I, P, V) with an
\* item id I that is not in items raise MissingItemError carrying I, and the
\* document is as it was: neither the item nor the parameter is created.
C13_MissingItemFailsWithoutEffect ==
    (/\ last.op \in {"item_param", "item_params", "with_item_param"}
     /\ IndexesOf(DocItems(PreDoc), last.args["item_id"]) = {})
    => /\ last.raised = "MissingItemError"
       /\ last.carried = last.args["item_id"]
       /\ Doc = PreDoc

\* the parameters of item id in a document (none when the item is not there)
DocItemParams(doc, id) ==
    IF IndexesOf(DocItems(doc), id) = {} THEN <<>>
    ELSE ElementParams(FirstOf(DocItems(doc), id))

\* C14: after with_item_param(I, P, V) with a scalar V on an asset in which
\* item I exists, item_param(I, P, 'value') returns V and item_params(I) holds
\* exactly one element with id P.
C14_ItemParamWriteThenRead ==
    (/\ last.op = "with_item_param"
     /\ last.v.t = "str"
     /\ DocWellKeyed(PreDoc)
     /\ IndexesOf(DocItems(PreDoc), last.args["item_id"]) # {})
    => LET I == last.args["item_id"]
           P == last.args["param_id"]
           read == item_param(heap, data, I, P, Str("value"), None)
           all == item_params(heap, data, I)
       IN /\ last.raised = ""
          /\ read.raised = ""
          /\ read.v = last.v
          /\ all.raised = ""
          /\ Cardinality({ i \in 1..Len(all.v) : heap[all.v[i].a].m["id"] = P }) = 1

\* C15: a lookup of a parameter that finds no match raises a failure that
\* carries the id of the parameter that was not found; so does item_param(I, P)
\* on an existing item I that has no parameter P.
C15_FailureCarriesParameterId ==
    /\ (/\ last.op \in {"param", "configuration_param"}
        /\ last.raised # ""
        /\ DocWellKeyed(Doc))
          => last.carried = last.args["param_id"]
    /\ (/\ last.op = "item_param"
        /\ DocWellKeyed(Doc)
        /\ IndexesOf(DocItems(Doc), last.args["item_id"]) # {}
        /\ IndexesOf(DocItemParams(Doc, last.args["item_id"]), last.args["param_id"]) = {})
          => last.raised # "" /\ last.carried = last.args["param_id"]

\* C16: item_param(I, P) on an item I that exists and has no parameter with id
\* P raises MissingItemError; it returns neither null nor a default.
C16_MissingItemParamRaisesMissingItemError ==
    (/\ last.op = "item_param"
     /\ IndexesOf(DocItems(Doc), last.args["item_id"]) # {}
     /\ IndexesOf(DocItemParams(Doc, last.args["item_id"]), last.args["param_id"]) = {})
    => last.raised = "MissingItemError"

----------------------------------------------------------------------------
(* with_param with the keyword create: the mixin HasParameters declares    *)
(* it, the facades Request, Asset and TierConfiguration do not.            *)

\* the keyword arguments HasParameters.with_param accepts
HasParametersKeywords == {"param_id", "value", "value_error", "value_type", "create"}

\* HasParameters.with_param(**args)
HasParameters_with_param(h, d, args) ==
    \* a keyword the signature does not declare, or no param_id
    IF BindError(args, HasParametersKeywords, {"param_id"})
    THEN [h |-> h, raised |-> "TypeError", parameter |-> None]
    ELSE
    LET found == param(h, d, args["param_id"], None, None)
    IN IF found.raised = "MissingParameterError" /\ Arg(args, "create", Bool(TRUE)) = Bool(FALSE)
       \* if create is False: raise
       THEN [h |-> h, raised |-> found.raised, parameter |-> found.parameter]
       \* otherwise the statements of Request.with_param, value_type 'text' by default
       ELSE LET r == with_param(h, d, "Request", Del(args, "create"))
            IN [h |-> r.h, raised |-> r.raised, parameter |-> None]

\* obj.with_param(**args) on an object of class cls: a keyword the signature
\* does not declare is a TypeError, raised before the body runs
call_with_param(h, d, cls, args) ==
    IF cls = "HasParameters" THEN HasParameters_with_param(h, d, args)
    ELSE LET r == with_param(h, d, cls, args)
         IN [h |-> r.h, raised |-> r.raised, parameter |-> None]

StrictClasses == Classes \cup {"HasParameters"}
StrictInputs ==
    { ("param_id" :> id) @@ v @@ c :
        id \in ParamIds,
        v \in {EmptyMap} \cup { "value" :> x : x \in {Str("A"), Str("B")} },
        c \in {EmptyMap} \cup { "create" :> Bool(b) : b \in BOOLEAN } }

StrictInit ==
    \E cls \in StrictClasses : \E doc \in {EmptyDoc, ParamsDoc} :
        LET r == Alloc(<<>>, doc)
        IN /\ heap = r.h
           /\ pre = r.h
           /\ facade = cls
           /\ data = r.v.a
           /\ last = [op |-> "init", args |-> EmptyMap, raised |-> "", carried |-> None]
           /\ nops = 0
           /\ written = [i \in {"P1", "P2"} |-> None]
           /\ twin = 0
           /\ todo = <<>>

\* obj.with_param(**args)
StrictWithParam(args) ==
    /\ nops < MaxOps
    /\ LET r == call_with_param(heap, data, facade, args)
       IN /\ heap' = r.h
          /\ last' = [op |-> "with_param", args |-> args, raised |-> r.raised,
                      carried |-> Carried(r)]
    /\ pre' = heap
    /\ nops' = nops + 1
    /\ UNCHANGED <<facade, data, written, twin, todo>>

StrictNext == \E args \in StrictInputs : StrictWithParam(args)

SpecStrict == StrictInit /\ [][StrictNext]_vars

----------------------------------------------------------------------------
(* Claim about create=False, checked under SpecStrict.                     *)

\* C17: with_param(id, ..., create=False) on a document that has no parameter
\* id raises MissingParameterError carrying id and leaves the document as it
\* was; when id is present it updates the parameter as the same call with
\* create=True does.  This is so for Request, Asset and TierConfiguration.
C17_StrictUpdate ==
    (/\ last.op = "with_param"
     /\ facade \in Classes
     /\ "create" \in DOMAIN last.args
     /\ last.args["create"] = Bool(FALSE))
    => IF IndexesOf(DocParams(PreDoc), last.args["param_id"]) = {}
       THEN /\ last.raised = "MissingParameterError"
            /\ last.carried = last.args["param_id"]
            /\ Doc = PreDoc
       ELSE LET r == call_with_param(pre, data, facade,
                                     ("create" :> Bool(TRUE)) @@ last.args)
            IN /\ last.raised = ""
               /\ r.raised = ""
               /\ Doc = Val(r.h, Ref(data))

----------------------------------------------------------------------------
(* Writers of nested mappings: marketplace, contract, connection and the   *)
(* three roles of a connection.  Each one merges a literal mapping into    *)
(* the mapping stored under a key and stores the result under that key.    *)

MaxWrites == 2

\* a dictionary literal of two members, in the order written
Pair(k1, v1, k2, v2) == Ordered((k1 :> v1) @@ (k2 :> v2), <<k1, k2>>)

\* self._data.update({key: merged}), merged the outcome of the merge
store_member(h, d, key, merged) ==
    IF merged.raised # "" THEN [h |-> h, raised |-> merged.raised]
    ELSE [h |-> Update(merged.h, d, Ordered(key :> merged.v, <<key>>)), raised |-> ""]

\* merge(stored, members) for the literal or the value `members`, allocated as o
merge_into(h, d, key, stored, o) == store_member(h, d, key, merge_of(o.h, stored, o.v))

\* self._data.update({key: merge(self._data.get(key, {}), members)}); a
\* failure of the merge leaves the document as it was; answers [h, raised]
merge_member(h, d, key, members) ==
    IF key \in DOMAIN h[d].m
    THEN merge_into(h, d, key, h[d].m[key], Alloc(h, members))
    ELSE merge_into(h, d, key, Ref(Len(h) + 1), Alloc(Append(h, NewDict), members))

\* with_marketplace(marketplace_id, marketplace_name)
with_marketplace(h, d, marketplace_id, marketplace_name) ==
    merge_member(h, d, "marketplace", Pair("id", marketplace_id, "name", marketplace_name))

\* HasContract.with_contract(contract_id, contract_name)
with_contract(h, d, contract_id, contract_name) ==
    merge_member(h, d, "contract", Pair("id", contract_id, "name", contract_name))

\* HasEvents.with_events(created, updated): created.isoformat() and
\* updated.isoformat() need datetimes
with_events(h, d, created_at, updated_at) ==
    IF created_at.t # "datetime" \/ updated_at.t # "datetime"
    THEN [h |-> h, raised |-> "AttributeError"]
    ELSE merge_member(h, d, "events",
                      Pair("created", Ordered("at" :> Str(isoformat(created_at)), <<"at">>),
                           "updated", Ordered("at" :> Str(isoformat(updated_at)), <<"at">>)))

\* a provider writer that stores a connection holding the provider only
with_connection_provider_replace(h, d, provider_id, provider_name) ==
    LET o == Alloc(h, Ordered("provider" :> Pair("id", provider_id, "name", provider_name),
                              <<"provider">>))
    IN [h |-> Update(o.h, d, Ordered("connection" :> o.v, <<"connection">>)), raised |-> ""]
\* with_connection_provider(provider_id, provider_name)
with_connection_provider(h, d, provider_id, provider_name) ==
    merge_member(h, d, "connection",
                 Ordered("provider" :> Pair("id", provider_id, "name", provider_name),
                         <<"provider">>))

\* with_connection_vendor(vendor_id, vendor_name)
with_connection_vendor(h, d, vendor_id, vendor_name) ==
    merge_member(h, d, "connection",
                 Ordered("vendor" :> Pair("id", vendor_id, "name", vendor_name), <<"vendor">>))

\* with_connection_hub(hub_id, hub_name)
with_connection_hub(h, d, hub_id, hub_name) ==
    merge_member(h, d, "connection",
                 Ordered("hub" :> Pair("id", hub_id, "name", hub_name), <<"hub">>))

\* self.with_connection_<role>(<role>_id=given.get('id'), <role>_name=given.get('name'))
\* after the outcome r of what with_connection did before; the role writer
\* is not called for an argument that is None, and given.get needs a mapping
with_connection_role(r, d, role, given) ==
    IF r.raised # "" \/ given = None THEN r
    ELSE IF ~IsDict(r.h, given) THEN [h |-> r.h, raised |-> "AttributeError"]
    ELSE CASE role = "provider" ->
                with_connection_provider(r.h, d, Arg(r.h[given.a].m, "id", None),
                                         Arg(r.h[given.a].m, "name", None))
           [] role = "vendor" ->
                with_connection_vendor(r.h, d, Arg(r.h[given.a].m, "id", None),
                                       Arg(r.h[given.a].m, "name", None))
           [] role = "hub" ->
                with_connection_hub(r.h, d, Arg(r.h[given.a].m, "id", None),
                                    Arg(r.h[given.a].m, "name", None))

\* with_connection(connection_id, connection_type, provider, vendor, hub); a
\* role argument is None or a value the caller built
with_connection(h, d, connection_id, connection_type, provider, vendor, hub) ==
    with_connection_role(
        with_connection_role(
            with_connection_role(
                merge_member(h, d, "connection",
                             Pair("id", connection_id, "type", connection_type)),
                d, "provider", provider),
            d, "vendor", vendor),
        d, "hub", hub)

Roles == {"provider", "vendor", "hub"}
Named(id, name) == Dict(("id" :> Str(id)) @@ ("name" :> Str(name)))

\* a document as the platform sends it, with every nested mapping filled in
NestedDoc ==
    Dict(("id" :> Str("X-1"))
         @@ ("marketplace" :> Named("MP-1", "Marketplace"))
         @@ ("contract" :> Named("CRD-1", "Contract"))
         @@ ("connection" :>
                Dict(("id" :> Str("CT-1")) @@ ("type" :> Str("production"))
                     @@ ("provider" :> Named("PA-1", "Provider"))
                     @@ ("vendor" :> Named("VA-1", "Vendor"))
                     @@ ("hub" :> Named("HB-1", "Hub")))))

\* a connection that knows its vendor only
VendorDoc ==
    Dict("connection" :> Dict(("id" :> Str("CT-1")) @@ ("vendor" :> Named("VA-1", "Vendor"))))

NestedClasses == Classes \cup {"HasContract", "HasEvents"}
WriterIds == {Str("N-1"), Str("N-2")}
WriterNames == {None, Str("New")}
RoleInputs == {None, Dict("id" :> Str("N-1")), Named("N-2", "New")}

NestedInit ==
    \E cls \in NestedClasses : \E doc \in {EmptyDoc, NestedDoc, VendorDoc} :
        LET r == Alloc(<<>>, doc)
        IN /\ heap = r.h
           /\ pre = r.h
           /\ facade = cls
           /\ data = r.v.a
           /\ last = [op |-> "init", key |-> "", role |-> "", id |-> None, name |-> None,
                      omitted |-> {}, raised |-> ""]
           /\ nops = 0
           /\ written = [i \in {"P1", "P2"} |-> None]
           /\ twin = 0
           /\ todo = <<>>

\* a call of a writer: the mapping it writes under `key` (its `role` member
\* for the role writers), with the id and the name given; r is its outcome
Write(op, key, role, id, name, omitted, r) ==
    /\ nops < MaxWrites
    /\ heap' = r.h
    /\ pre' = heap
    /\ last' = [op |-> op, key |-> key, role |-> role, id |-> id, name |-> name,
                omitted |-> omitted, raised |-> r.raised]
    /\ nops' = nops + 1
    /\ UNCHANGED <<facade, data, written, twin, todo>>

WithMarketplace(id, name) ==
    /\ facade \in Classes
    /\ Write("with_marketplace", "marketplace", "", id, name, {},
             with_marketplace(heap, data, id, name))

WithContract(id, name) ==
    /\ facade = "HasContract"
    /\ Write("with_contract", "contract", "", id, name, {},
             with_contract(heap, data, id, name))

WithEvents(created_at, updated_at) ==
    /\ facade = "HasEvents"
    /\ Write("with_events", "events", "", None, None, {},
             with_events(heap, data, created_at, updated_at))

WithConnectionProvider(id, name) ==
    /\ facade \in {"Asset", "TierConfiguration"}
    /\ Write("with_connection_provider", "connection", "provider", id, name, {},
             with_connection_provider(heap, data, id, name))

WithConnectionVendor(id, name) ==
    /\ facade \in {"Asset", "TierConfiguration"}
    /\ Write("with_connection_vendor", "connection", "vendor", id, name, {},
             with_connection_vendor(heap, data, id, name))

WithConnectionHub(id, name) ==
    /\ facade \in {"Asset", "TierConfiguration"}
    /\ Write("with_connection_hub", "connection", "hub", id, name, {},
             with_connection_hub(heap, data, id, name))

\* with_connection('CT-2', 'test', provider, vendor, hub)
WithConnection(provider, vendor, hub) ==
    /\ facade \in {"Asset", "TierConfiguration"}
    /\ LET p == Alloc(heap, provider)
           v == Alloc(p.h, vendor)
           u == Alloc(v.h, hub)
       IN Write("with_connection", "connection", "", Str("CT-2"), None,
                { r \in Roles : [provider |-> provider, vendor |-> vendor, hub |-> hub][r] = None },
                with_connection(u.h, data, Str("CT-2"), Str("test"), p.v, v.v, u.v))

NestedNext ==
    \/ \E id \in WriterIds : \E name \in WriterNames : WithMarketplace(id, name)
    \/ \E id \in WriterIds : \E name \in WriterNames : WithContract(id, name)
    \/ \E created_at, updated_at \in Datetimes : WithEvents(created_at, updated_at)
    \/ \E id \in WriterIds : \E name \in WriterNames : WithConnectionProvider(id, name)
    \/ \E id \in WriterIds : \E name \in WriterNames : WithConnectionVendor(id, name)
    \/ \E id \in WriterIds : \E name \in WriterNames : WithConnectionHub(id, name)
    \/ \E p \in RoleInputs : \E v, u \in {None, Named("N-1", "New")} : WithConnection(p, v, u)

SpecNested == NestedInit /\ [][NestedNext]_vars

----------------------------------------------------------------------------
(* Claims about the writers of nested mappings, checked under SpecNested.  *)

\* the mapping under a key of a document, the empty mapping when there is none
Sub(doc, key) == IF key \in DOMAIN doc.m THEN doc.m[key] ELSE Dict(EmptyMap)

\* C18: with_connection_provider, with_connection_vendor and
\* with_connection_hub leave the connection's id, its type and the two other
\* roles as they were; with_connection leaves as it was every role for which
\* no argument was given.
C18_NestedWritesKeepSiblings ==
    /\ last.role \in Roles =>
          \A k \in {"id", "type"} \cup (Roles \ {last.role}) :
              Field(Sub(Doc, "connection"), k) = Field(Sub(PreDoc, "connection"), k)
    /\ last.op = "with_connection" =>
          \A r \in last.omitted :
              Field(Sub(Doc, "connection"), r) = Field(Sub(PreDoc, "connection"), r)

\* the provider of a connection that has an id, a type, a vendor and a hub has
\* been rewritten, and a with_connection without a vendor argument has kept
\* the only role the connection knew, its vendor
C18_Witness ==
    \/ /\ last.op = "with_connection_provider"
       /\ Field(Sub(Doc, "connection"), "provider") # Field(Sub(PreDoc, "connection"), "provider")
       /\ \A k \in {"id", "type", "vendor", "hub"} :
             /\ k \in DOMAIN Sub(PreDoc, "connection").m
             /\ Field(Sub(Doc, "connection"), k) = Field(Sub(PreDoc, "connection"), k)
    \/ /\ last.op = "with_connection"
       /\ "vendor" \in last.omitted
       /\ "provider" \notin last.omitted
       /\ Field(Sub(PreDoc, "connection"), "vendor") = Named("VA-1", "Vendor")
       /\ Field(Sub(Doc, "connection"), "vendor") = Named("VA-1", "Vendor")
       /\ Field(Sub(PreDoc, "connection"), "provider") = Absent

\* the mapping the last writer wrote into
Written_sub(doc) ==
    IF last.role \in Roles THEN
        IF last.role \in DOMAIN Sub(doc, "connection").m
        THEN Sub(doc, "connection").m[last.role] ELSE Dict(EmptyMap)
    ELSE Sub(doc, last.key)

\* C19: with_marketplace, with_contract and the three connection role writers
\* called without the name argument leave the name of the existing mapping as
\* it was; the mapping is created, with the id given, when there was none.
C19_OmittedNameIsKept ==
    (last.op \in {"with_marketplace", "with_contract", "with_connection_provider",
                  "with_connection_vendor", "with_connection_hub"})
    => /\ Field(Written_sub(Doc), "id") = last.id
       /\ (last.name = None /\ Written_sub(PreDoc) # Dict(EmptyMap))
             => Field(Written_sub(Doc), "name") = Field(Written_sub(PreDoc), "name")

----------------------------------------------------------------------------
(* Claim about with_params as a replacement, checked under SpecParams.     *)

\* C20: with_params(L) replaces the whole list of parameters: afterwards the
\* ids in params are exactly the ids of the entries of L, and a parameter
\* that was there before and whose id is not in L is not in the list any more.
C20_WithParamsReplacesList ==
    (last.op = "with_params" /\ last.raised = "")
    => LET given == { last.args.l[j].m["param_id"] : j \in 1..Len(last.args.l) }
       IN /\ { DocParams(Doc)[i].m["id"] : i \in 1..Len(DocParams(Doc)) } = given
          /\ \A i \in 1..Len(DocParams(PreDoc)) :
                DocParams(PreDoc)[i].m["id"] \notin given
                   => IndexesOf(DocParams(Doc), DocParams(PreDoc)[i].m["id"]) = {}

----------------------------------------------------------------------------
(* Generic and typed reads of a member, removal and writing it again.      *)

\* Request.id(), Request.type(), Request.status(), Request.note():
\* self._request.get('<key>')
id(h, d) == Arg(h[d].m, "id", None)
type(h, d) == Arg(h[d].m, "type", None)
status(h, d) == Arg(h[d].m, "status", None)
note(h, d) == Arg(h[d].m, "note", None)

\* Request.with_note(note)
with_note(h, d, n) == Update(h, d, Ordered("note" :> n, <<"note">>))

\* Request.reason(), Request.with_reason(reason)
reason(h, d) == Arg(h[d].m, "reason", None)
with_reason(h, d, r) == Update(h, d, Ordered("reason" :> r, <<"reason">>))

\* Request.created(), Request.updated(): the stored string parsed, None when
\* there is none; answers [raised, v]
created(h, d) ==
    LET c == Arg(h[d].m, "created", None)
    IN IF c # None THEN fromisoformat(c) ELSE [raised |-> "", v |-> c]
updated(h, d) ==
    LET u == Arg(h[d].m, "updated", None)
    IN IF u # None THEN fromisoformat(u) ELSE [raised |-> "", v |-> u]

\* Request.with_created(created), Request.with_updated(updated): the ISO 8601
\* string of the datetime is stored; a value that has no isoformat raises
\* AttributeError and nothing is stored; answers [h, raised]
with_created(h, d, c) ==
    IF c.t # "datetime" THEN [h |-> h, raised |-> "AttributeError"]
    ELSE [h |-> Update(h, d, Ordered("created" :> Str(isoformat(c)), <<"created">>)),
          raised |-> ""]
with_updated(h, d, u) ==
    IF u.t # "datetime" THEN [h |-> h, raised |-> "AttributeError"]
    ELSE [h |-> Update(h, d, Ordered("updated" :> Str(isoformat(u)), <<"updated">>)),
          raised |-> ""]

\* Asset.external_id(), Asset.external_uid(), TierConfiguration.tier_level()
external_id(h, d) == Arg(h[d].m, "external_id", None)
external_uid(h, d) == Arg(h[d].m, "external_uid", None)
tier_level(h, d) == Arg(h[d].m, "tier_level", None)

\* Asset.with_external_id, Asset.with_external_uid, TierConfiguration.with_tier_level
with_external_id(h, d, asset_external_id) == Update(h, d, Ordered("external_id" :> asset_external_id, <<"external_id">>))
with_external_uid(h, d, asset_external_uid) == Update(h, d, Ordered("external_uid" :> asset_external_uid, <<"external_uid">>))
with_tier_level(h, d, level) == Update(h, d, Ordered("tier_level" :> level, <<"tier_level">>))

\* HasReadWriteOperations.with_member(key, value), without_member(key)
with_member(h, d, key, value) == Update(h, d, Ordered(key :> value, <<key>>))
without_member(h, d, key) == IF key \in DOMAIN h[d].m THEN PopKey(h, d, key) ELSE h

\* the typed readers of each class
TypedReaders(cls) ==
    CASE cls = "Request" -> {"id", "type", "status", "note", "reason", "created", "updated"}
      [] cls = "Asset" -> {"id", "status", "external_id", "external_uid"}
      [] cls = "TierConfiguration" -> {"id", "status", "tier_level"}
      [] OTHER -> {}

\* the typed reader of a key; answers [raised, v]
reader(h, d, key) ==
    CASE key = "id" -> [raised |-> "", v |-> id(h, d)]
      [] key = "type" -> [raised |-> "", v |-> type(h, d)]
      [] key = "status" -> [raised |-> "", v |-> status(h, d)]
      [] key = "note" -> [raised |-> "", v |-> note(h, d)]
      [] key = "reason" -> [raised |-> "", v |-> reason(h, d)]
      [] key = "created" -> created(h, d)
      [] key = "updated" -> updated(h, d)
      [] key = "external_id" -> [raised |-> "", v |-> external_id(h, d)]
      [] key = "external_uid" -> [raised |-> "", v |-> external_uid(h, d)]
      [] key = "tier_level" -> [raised |-> "", v |-> tier_level(h, d)]

MemberKeys == {"id", "type", "status", "note", "reason", "created", "updated"}
MemberClasses == {"Request", "HasReadWriteOperations"}

\* a request with its scalar members set
MemberDoc ==
    Dict(("id" :> Str("PR-0")) @@ ("type" :> Str("purchase")) @@ ("status" :> Str("pending"))
         @@ ("note" :> Str("N0")) @@ ("reason" :> Str("R0"))
         @@ ("created" :> Str("2023-01-02T03:04:05")))

MembersInit ==
    \E cls \in MemberClasses : \E doc \in {EmptyDoc, MemberDoc, Dict("id" :> Str("PR-0"))} :
        LET r == Alloc(<<>>, doc)
        IN /\ heap = r.h
           /\ pre = r.h
           /\ facade = cls
           /\ data = r.v.a
           /\ last = [op |-> "init", args |-> doc, result |-> ""]
           /\ nops = 0
           /\ written = [i \in {"P1", "P2"} |-> None]
           /\ twin = 0
           /\ todo = <<>>

WithNote(n) == ModelCall("with_note", n, with_note(heap, data, n))
WithReason(r) == ModelCall("with_reason", r, with_reason(heap, data, r))
WithCreated(c) == ModelCall("with_created", c, with_created(heap, data, c).h)
WithUpdated(u) == ModelCall("with_updated", u, with_updated(heap, data, u).h)

\* builder.with_member(key, value), builder.without_member(key)
WithMember(key, value) ==
    LET al == Alloc(heap, value)
    IN ModelCall("with_member", [key |-> key, value |-> value],
                 with_member(al.h, data, key, al.v))
WithoutMember(key) == ModelCall("without_member", Str(key), without_member(heap, data, key))

\* what callers store with with_member
MemberValues == {None, Str("V"), List(<<Str("v")>>), Dict("id" :> Str("X-1"))}

MembersNext ==
    \/ /\ facade = "Request"
       /\ \/ \E key \in MemberKeys : Without(key)
          \/ WithId
          \/ \E t \in TypeInputs : WithType(t)
          \/ \E st \in {Str("pending"), Str("approved")} : WithStatus(st)
          \/ \E n \in {Str("N1")} : WithNote(n)
          \/ \E r \in {Str("R1")} : WithReason(r)
          \/ \E c \in Datetimes : WithCreated(c)
          \/ \E u \in Datetimes : WithUpdated(u)
    \/ /\ facade = "HasReadWriteOperations"
       /\ \/ \E key \in {"id", "k"} : \E value \in MemberValues : WithMember(key, value)
          \/ \E key \in {"id", "k"} : WithoutMember(key)

SpecMembers == MembersInit /\ [][MembersNext]_vars

\* the key the last call wrote or removed
MemberKey ==
    CASE last.op \in {"without", "without_member"} -> last.args.s
      [] last.op = "with_member" -> last.args.key
      [] last.op = "with_id" -> "id"
      [] last.op = "with_type" -> "type"
      [] last.op = "with_status" -> "status"
      [] last.op = "with_note" -> "note"
      [] last.op = "with_reason" -> "reason"
      [] last.op = "with_created" -> "created"
      [] last.op = "with_updated" -> "updated"
      [] OTHER -> ""

\* the value the last call wrote, and what the document holds for it (a
\* datetime is kept as its ISO 8601 string)
MemberValue == IF last.op = "with_member" THEN last.args.value ELSE last.args
MemberStored == IF MemberValue.t = "datetime" THEN Str(isoformat(MemberValue)) ELSE MemberValue

\* C21: after without(key) the typed reader of the key and get(key) return
\* null; after writing the key its reader and get return the value written;
\* without on an absent key leaves the document as it was; a removal or a
\* write changes no other key.
C21_RemoveThenRead ==
    last.op # "init" =>
        /\ last.op \in {"without", "without_member"} =>
              /\ MemberKey \in TypedReaders(facade)
                    => reader(heap, data, MemberKey) = [raised |-> "", v |-> None]
              /\ get(heap, data, Str(MemberKey), None) = None
              /\ MemberKey \notin DOMAIN Doc.m
              /\ MemberKey \notin DOMAIN PreDoc.m => Doc = PreDoc
        /\ last.op \notin {"without", "without_member"} =>
              /\ MemberKey \in TypedReaders(facade)
                    => reader(heap, data, MemberKey) = [raised |-> "", v |-> MemberValue]
              /\ Val(heap, get(heap, data, Str(MemberKey), None)) = MemberStored
        /\ \A k \in (DOMAIN Doc.m \cup DOMAIN PreDoc.m) \ {MemberKey} :
              Field(Doc, k) = Field(PreDoc, k)

\* the creation time of a request was removed and has just been written
\* again, as a datetime with a UTC offset and microseconds, next to members
\* that stayed as they were; created() parses the stored string back
C21_Witness ==
    /\ last.op = "with_created"
    /\ nops = 2
    /\ "created" \notin DOMAIN PreDoc.m
    /\ {"id", "type", "status", "note"} \subseteq DOMAIN PreDoc.m
    /\ last.args.tzinfo = Timezone(1, 19800, 0)
    /\ get(heap, data, Str("created"), None) = Str("2023-06-30T18:45:00.500000+05:30")
    /\ created(heap, data) = [raised |-> "", v |-> last.args]
    /\ type(heap, data) = Str("purchase")

----------------------------------------------------------------------------
(* raw(deep_copy): the wrapped mapping or a deep copy of it.  `twin` is    *)
(* the address raw returned last (0 before the first call); the caller     *)
(* keeps it and may write into it.                                         *)

MaxSnapshotOps == 3

\* a raw that copies the wrapped mapping only, not what it holds
raw_shallow(h, d, deep_copy) ==
    IF deep_copy THEN [h |-> Append(h, h[d]), v |-> Ref(Len(h) + 1)]
    ELSE [h |-> h, v |-> Ref(d)]
\* raw(deep_copy): deepcopy(self._data) if deep_copy else self._data
raw(h, d, deep_copy) ==
    IF deep_copy THEN deepcopy(h, Ref(d)) ELSE [h |-> h, v |-> Ref(d)]

RawInit ==
    \E cls \in Classes : \E doc \in {EmptyDoc, ParamsDoc} :
        LET r == Alloc(<<>>, doc)
        IN /\ heap = r.h
           /\ pre = r.h
           /\ facade = cls
           /\ data = r.v.a
           /\ last = [op |-> "init", args |-> None, deep_copy |-> FALSE]
           /\ nops = 0
           /\ written = [i \in {"P1", "P2"} |-> None]
           /\ twin = 0
           /\ todo = <<>>

RawStep(op, args, deep_copy, h, t) ==
    /\ nops < MaxSnapshotOps
    /\ heap' = h
    /\ pre' = heap
    /\ twin' = t
    /\ last' = [op |-> op, args |-> args, deep_copy |-> deep_copy]
    /\ nops' = nops + 1
    /\ UNCHANGED <<facade, data, written, todo>>

\* snapshot = facade.raw(deep_copy)
Raw(deep_copy) ==
    LET r == raw(heap, data, deep_copy)
    IN RawStep("raw", None, deep_copy, r.h, r.v.a)

\* facade.with_param(param_id, value)
RawWithParam(pid, v) ==
    RawStep("with_param", pid, FALSE,
            with_param(heap, data, facade, ("param_id" :> pid) @@ ("value" :> v)).h, twin)

\* the caller's snapshot['id'] = 'Z'
SnapshotSet ==
    /\ twin # 0
    /\ RawStep("snapshot_set", None, FALSE, SetKey(heap, twin, "id", Str("Z")), twin)

\* the caller's snapshot['params'][0]['value'] = 'Z'
SnapshotSetNested ==
    /\ twin # 0
    /\ params(heap, twin) # <<>>
    /\ RawStep("snapshot_set_nested", None, FALSE,
               SetKey(heap, params(heap, twin)[1].a, "value", Str("Z")), twin)

\* the caller's snapshot['params'].append({'id': 'P9'})
SnapshotAppend ==
    /\ twin # 0
    /\ "params" \in DOMAIN heap[twin].m
    /\ RawStep("snapshot_append", None, FALSE,
               ListAppend(Append(heap, Ordered("id" :> Str("P9"), <<"id">>)),
                          heap[twin].m["params"].a, Ref(Len(heap) + 1)),
               twin)

RawNext ==
    \/ \E deep_copy \in BOOLEAN : Raw(deep_copy)
    \/ \E pid \in ParamIds : \E v \in {Str("A"), Str("B")} : RawWithParam(pid, v)
    \/ SnapshotSet
    \/ SnapshotSetNested
    \/ SnapshotAppend

SpecRaw == RawInit /\ [][RawNext]_vars

\* C22: a mapping returned by raw(deep_copy=True) is not changed by a later
\* mutation through the facade, and a write into it, at the top or inside a
\* nested object, does not change the document; raw() without deep_copy
\* returns the wrapped mapping itself, so it always shows the document.
C22_RawSnapshot ==
    /\ last.op = "raw" =>
          /\ last.deep_copy <=> twin # data
          /\ Val(heap, Ref(twin)) = Doc
          /\ Doc = PreDoc
    /\ (twin # 0 /\ twin # data) =>
          /\ last.op = "with_param" => Val(heap, Ref(twin)) = Val(pre, Ref(twin))
          /\ last.op \in {"snapshot_set", "snapshot_set_nested", "snapshot_append"}
                => Doc = PreDoc
    /\ twin = data => Val(heap, Ref(twin)) = Doc

\* a deep copy was taken of a document with parameters, the facade then
\* changed a parameter and the caller then wrote into a parameter of the
\* copy: copy and document differ in both
C22_Witness ==
    /\ twin # 0
    /\ twin # data
    /\ nops = 3
    /\ last.op = "snapshot_set_nested"
    /\ Val(heap, Ref(twin)) # Val(pre, Ref(twin))
    /\ Doc = PreDoc
    /\ FieldOf(DocParams(Doc), P1, "value") = Str("B")
    /\ FieldOf(DocParams(Val(heap, Ref(twin))), P1, "value") = Str("Z")

----------------------------------------------------------------------------
(* The readers of nested objects, and the facades a request hands out.     *)
(* Every nested accessor reads its parent with get, answers None when the  *)
(* parent is None, and otherwise the parent or parent.get(key, default).   *)

MaxReads == 2

\* x if key is None else x.get(key, default), x a mapping of the document
member(h, x, key, default) ==
    IF x = None THEN None
    ELSE IF key = None THEN x
    ELSE Arg(h[x.a].m, key.s, default)

marketplace(h, d, key, default) == member(h, Arg(h[d].m, "marketplace", None), key, default)
assignee(h, d, key, default) == member(h, Arg(h[d].m, "assignee", None), key, default)
product(h, d, key, default) == member(h, Arg(h[d].m, "product", None), key, default)
events(h, d, key, default) == member(h, Arg(h[d].m, "events", None), key, default)
contract(h, d, key, default) == member(h, Arg(h[d].m, "contract", None), key, default)
account(h, d, key, default) == member(h, Arg(h[d].m, "account", None), key, default)
connection(h, d, key, default) == member(h, Arg(h[d].m, "connection", None), key, default)

\* provider = self.connection('provider'), then as above
connection_provider(h, d, key, default) ==
    member(h, connection(h, d, Str("provider"), None), key, default)
connection_vendor(h, d, key, default) ==
    member(h, connection(h, d, Str("vendor"), None), key, default)
connection_hub(h, d, key, default) ==
    member(h, connection(h, d, Str("hub"), None), key, default)

\* a tier reader that answers the default for a tier that is not there
tier_default_on_missing(h, d, tier_name, key, default) ==
    LET tiers == IF "tiers" \in DOMAIN h[d].m THEN h[h[d].m["tiers"].a].m ELSE EmptyMap
    IN IF Arg(tiers, tier_name, None) = None THEN default
       ELSE member(h, Arg(tiers, tier_name, None), key, default)
\* tier = self._asset.get('tiers', {}).get(tier_name), then as above
tier(h, d, tier_name, key, default) ==
    LET tiers == IF "tiers" \in DOMAIN h[d].m THEN h[h[d].m["tiers"].a].m ELSE EmptyMap
    IN member(h, Arg(tiers, tier_name, None), key, default)

tier_customer(h, d, key, default) == tier(h, d, "customer", key, default)
tier_tier1(h, d, key, default) == tier(h, d, "tier1", key, default)
tier_tier2(h, d, key, default) == tier(h, d, "tier2", key, default)

\* the accessors each facade has
Accessors(cls) ==
    CASE cls = "Request" -> {"marketplace", "assignee", "events", "contract"}
      [] cls = "Asset" -> {"product", "marketplace", "connection", "connection_provider",
                           "connection_vendor", "connection_hub", "contract",
                           "tier_customer", "tier_tier1", "tier_tier2"}
      [] cls = "TierConfiguration" -> {"product", "marketplace", "connection",
                                       "connection_provider", "connection_vendor",
                                       "connection_hub", "account"}

\* facade.<name>(key, default)
accessor(h, d, name, key, default) ==
    CASE name = "marketplace" -> marketplace(h, d, key, default)
      [] name = "assignee" -> assignee(h, d, key, default)
      [] name = "product" -> product(h, d, key, default)
      [] name = "events" -> events(h, d, key, default)
      [] name = "contract" -> contract(h, d, key, default)
      [] name = "account" -> account(h, d, key, default)
      [] name = "connection" -> connection(h, d, key, default)
      [] name = "connection_provider" -> connection_provider(h, d, key, default)
      [] name = "connection_vendor" -> connection_vendor(h, d, key, default)
      [] name = "connection_hub" -> connection_hub(h, d, key, default)
      [] name = "tier_customer" -> tier_customer(h, d, key, default)
      [] name = "tier_tier1" -> tier_tier1(h, d, key, default)
      [] name = "tier_tier2" -> tier_tier2(h, d, key, default)

\* cls(self._request.get(key, {})): the constructor is given the stored
\* value, or a new {} when the key is absent; answers [h, raised, v], v the
\* mapping the new facade wraps
facade_of(h, d, cls, key) ==
    LET g == IF key \in DOMAIN h[d].m THEN [h |-> h, v |-> h[d].m[key]]
             ELSE Alloc(h, Dict(EmptyMap))
        r == __init__(g.h, cls, g.v)
    IN [h |-> r.h, raised |-> r.raised,
        v |-> IF r.raised = "" THEN Ref(r.data) ELSE None]

\* an asset() that stores the mapping it made for a request without one
asset_setdefault(h, d) ==
    LET r == facade_of(h, d, "Asset", "asset")
    IN IF r.raised = "" /\ Arg(h[d].m, "asset", None) # r.v
       THEN [r EXCEPT !.h = SetKey(r.h, d, "asset", r.v)] ELSE r
\* Request.asset(): Asset(self._request.get('asset', {}))
asset(h, d) == facade_of(h, d, "Asset", "asset")

\* a tier_configuration() that stores the mapping it made
tier_configuration_setdefault(h, d) ==
    LET r == facade_of(h, d, "TierConfiguration", "configuration")
    IN IF r.raised = "" /\ Arg(h[d].m, "configuration", None) # r.v
       THEN [r EXCEPT !.h = SetKey(r.h, d, "configuration", r.v)] ELSE r
\* Request.tier_configuration(): TierConfiguration(self._request.get('configuration', {}))
tier_configuration(h, d) == facade_of(h, d, "TierConfiguration", "configuration")

\* documents as the platform sends them
RequestDoc ==
    Dict(("id" :> Str("PR-1")) @@ ("type" :> Str("purchase")) @@ ("status" :> Str("pending"))
         @@ ("marketplace" :> Named("MP-1", "Marketplace"))
         @@ ("assignee" :> Dict("id" :> Str("UR-1")))
         @@ ("created" :> Str("2023-01-02T03:04:05"))
         @@ ("events" :> Dict("created" :> Dict("at" :> Str("2023-01-01"))))
         @@ ("contract" :> Named("CRD-1", "Contract"))
         @@ ("params" :> List(<<FullParam(P1, Str("A"))>>))
         @@ ("asset" :> Dict(("id" :> Str("AS-1")) @@ ("status" :> Str("active")))))
AssetDoc ==
    Dict(NestedDoc.m @@ ItemsDoc.m
         @@ ("product" :> Dict("id" :> Str("PRD-1")))
         @@ ("tiers" :> Dict(("customer" :> Named("TA-1", "Customer"))
                             @@ ("tier1" :> Dict("id" :> Str("TA-2")))))
         @@ ("params" :> List(<<FullParam(P1, Str("A"))>>)))
TierConfigurationDoc ==
    Dict(VendorDoc.m @@ ConfigurationDoc.m
         @@ ("id" :> Str("TC-1"))
         @@ ("account" :> Dict(("id" :> Str("TA-1"))
                               @@ ("contact_info" :> Dict("city" :> Str("Springfield")))))
         @@ ("product" :> Dict(("id" :> Str("PRD-1")) @@ ("name" :> None))))

\* requests whose asset and configuration are null, or not mappings
NullObjectsDoc ==
    Dict(("id" :> Str("PR-2")) @@ ("asset" :> None) @@ ("configuration" :> None))
ScalarObjectsDoc ==
    Dict(("id" :> Str("PR-3")) @@ ("asset" :> Str("AS-1")) @@ ("configuration" :> List(<<>>)))

ReadDocs(cls) ==
    CASE cls = "Request" -> {EmptyDoc, RequestDoc, ConfigurationDoc, NullObjectsDoc,
                             ScalarObjectsDoc, UnkeyedFirstDoc}
      [] cls = "Asset" -> {EmptyDoc, AssetDoc, VendorDoc, UnkeyedLastDoc, UnkeyedFirstDoc}
      [] cls = "TierConfiguration" -> {EmptyDoc, TierConfigurationDoc, NestedDoc,
                                       UnkeyedFirstDoc}

\* facade = cls(m): the facade wraps m; `written` keeps what m was
ReadsInit ==
    \E cls \in Classes : \E doc \in ReadDocs(cls) :
        LET r == Alloc(<<>>, doc)
        IN /\ heap = r.h
           /\ pre = r.h
           /\ facade = cls
           /\ data = r.v.a
           /\ last = [op |-> "init", args |-> <<>>, raised |-> "", result |-> None]
           /\ nops = 0
           /\ written = doc
           /\ twin = 0
           /\ todo = <<>>

\* one read: h is the heap it leaves, v what it answered (None if it raised)
Read(op, args, h, raised, v) ==
    /\ nops < MaxReads
    /\ heap' = h
    /\ pre' = heap
    /\ last' = [op |-> op, args |-> args, raised |-> raised,
                result |-> IF raised # "" THEN None ELSE v]
    /\ nops' = nops + 1
    /\ UNCHANGED <<facade, data, written, todo>>

\* the list a reader answered, as a value
Listed(h, l) == List([i \in 1..Len(l) |-> Val(h, l[i])])

ReadKeys == {None, Str("id"), Str("name"), Str("missing")}
ReadDefaults == {None, Str("D")}

\* request.get(key, default) (only Request defines get) and the typed
\* readers id(), type(), status(), note()
ReadGet(key, default) ==
    /\ facade = "Request"
    /\ Read("get", <<key, default>>, heap, "", Val(heap, get(heap, data, key, default)))
    /\ UNCHANGED twin
ReadTyped(key) ==
    /\ key \in TypedReaders(facade)
    /\ LET r == reader(heap, data, key)
       IN Read(key, <<>>, heap, r.raised, r.v)
    /\ UNCHANGED twin

\* facade.params(), facade.param(param_id, key)
ReadParams ==
    /\ Read("params", <<>>, heap, "", Listed(heap, params(heap, data)))
    /\ UNCHANGED twin
ReadParam(pid, key) ==
    LET r == param(heap, data, pid, key, None)
    IN /\ Read("param", <<pid, key>>, heap, r.raised, Val(heap, r.v))
       /\ UNCHANGED twin

\* facade.configuration_param(param_id)
ReadConfigurationParam(pid) ==
    LET r == configuration_param(heap, data, pid, None, None)
    IN /\ facade \in {"Asset", "TierConfiguration"}
       /\ Read("configuration_param", <<pid>>, heap, r.raised, Val(heap, r.v))
       /\ UNCHANGED twin

\* asset.item(item_id), asset.item_param(item_id, param_id)
ReadItem(iid) ==
    LET r == item(heap, data, iid, None, None)
    IN /\ facade = "Asset"
       /\ Read("item", <<iid>>, heap, r.raised, Val(heap, r.v))
       /\ UNCHANGED twin
ReadItemParam(iid, pid) ==
    LET r == item_param(heap, data, iid, pid, None, None)
    IN /\ facade = "Asset"
       /\ Read("item_param", <<iid, pid>>, heap, r.raised, Val(heap, r.v))
       /\ UNCHANGED twin

\* facade.<name>(key, default) for a nested accessor of the facade
ReadAccessor(name, key, default) ==
    /\ name \in Accessors(facade)
    /\ Read(name, <<key, default>>, heap, "", Val(heap, accessor(heap, data, name, key, default)))
    /\ UNCHANGED twin

\* request.asset(), request.tier_configuration(): twin is the mapping the
\* facade handed out wraps
ReadAsset ==
    LET r == asset(heap, data)
    IN /\ facade = "Request"
       /\ Read("asset", <<>>, r.h, r.raised, Val(r.h, r.v))
       /\ twin' = IF r.raised = "" THEN r.v.a ELSE twin
ReadTierConfiguration ==
    LET r == tier_configuration(heap, data)
    IN /\ facade = "Request"
       /\ Read("tier_configuration", <<>>, r.h, r.raised, Val(r.h, r.v))
       /\ twin' = IF r.raised = "" THEN r.v.a ELSE twin

\* request.request_model()
ReadRequestModel ==
    /\ facade = "Request"
    /\ Read("request_model", <<>>, heap, "", Str(request_model(heap, data)))
    /\ UNCHANGED twin

ReadsNext ==
    \/ \E key \in ReadKeys \cup {Str("params")} : \E default \in ReadDefaults : ReadGet(key, default)
    \/ \E key \in UNION { TypedReaders(cls) : cls \in Classes } : ReadTyped(key)
    \/ ReadParams
    \/ \E pid \in ParamIds : \E key \in {None, Str("value")} : ReadParam(pid, key)
    \/ \E pid \in ParamIds : ReadConfigurationParam(pid)
    \/ \E iid \in {I1, I3} : ReadItem(iid)
    \/ \E iid \in {I1, I2} : \E pid \in ParamIds : ReadItemParam(iid, pid)
    \/ \E name \in UNION { Accessors(cls) : cls \in Classes } :
          \E key \in ReadKeys : \E default \in ReadDefaults : ReadAccessor(name, key, default)
    \/ ReadAsset
    \/ ReadTierConfiguration
    \/ ReadRequestModel

SpecReads == ReadsInit /\ [][ReadsNext]_vars

\* C23: a facade constructed from a mapping m on which only reads are
\* performed, failed lookups included, answers from raw() a mapping equal to
\* m: no read changes the document.
C23_ReadsKeepDocument ==
    Val(heap, raw(heap, data, FALSE).v) = written

\* a request without an asset handed out an asset facade, a lookup then
\* failed, and the document is what it was
C23_Witness ==
    /\ nops = MaxReads
    /\ facade = "Request"
    /\ twin # 0
    /\ "asset" \notin DOMAIN written.m
    /\ last.raised = "MissingParameterError"
    /\ Doc = written

\* the sub-mapping a nested accessor reads, Absent when the document has none
ParentOf(doc, name) ==
    CASE name \in {"connection_provider", "connection_vendor", "connection_hub"} ->
            IF Field(doc, "connection") = Absent THEN Absent
            ELSE Field(Field(doc, "connection"),
                       CASE name = "connection_provider" -> "provider"
                         [] name = "connection_vendor" -> "vendor"
                         [] name = "connection_hub" -> "hub")
      [] name \in {"tier_customer", "tier_tier1", "tier_tier2"} ->
            IF Field(doc, "tiers") = Absent THEN Absent
            ELSE Field(Field(doc, "tiers"),
                       CASE name = "tier_customer" -> "customer"
                         [] name = "tier_tier1" -> "tier1"
                         [] name = "tier_tier2" -> "tier2")
      [] OTHER -> Field(doc, name)

AccessorNames == UNION { Accessors(cls) : cls \in Classes }

\* C25: a nested accessor answers None whenever its parent is absent,
\* whatever key and default are passed; with the parent present it answers
\* the whole sub-mapping when no key is given, else the field's value, or
\* the default when the sub-mapping has no such field.
C25_NestedReads ==
    last.op \in AccessorNames =>
        LET parent == ParentOf(Doc, last.op)
            key == last.args[1]
            default == last.args[2]
        IN last.result =
              IF parent = Absent THEN None
              ELSE IF key = None THEN parent
              ELSE IF key.s \in DOMAIN parent.m THEN parent.m[key.s]
              ELSE default

\* the provider of a connection that has none was read with a key and a
\* default, after the id of the connection itself was read
C25_Witness ==
    /\ last.op = "connection_provider"
    /\ Field(Doc, "connection") # Absent
    /\ ParentOf(Doc, "connection_provider") = Absent
    /\ last.args = <<Str("id"), Str("D")>>
    /\ last.result = None
    /\ nops = 2

----------------------------------------------------------------------------
(* Construction.  The caller builds an initializer and hands it to the     *)
(* class; `facade` lists the classes of the facades made so far, `data`    *)
(* and `twin` are the mappings the first and the second of them wrap.      *)

MaxConstructions == 3

\* what callers pass: nothing, mappings, lists, strings
Initializers ==
    {None, EmptyDoc, ParamsDoc, List(<<>>), List(<<EmptyDoc>>), Str(""), Str("X-1")}

ConstructInit ==
    /\ heap = <<>>
    /\ pre = <<>>
    /\ facade = <<>>
    /\ data = 0
    /\ twin = 0
    /\ last = [op |-> "init", cls |-> "", initializer |-> None, raised |-> "", made |-> 0]
    /\ nops = 0
    /\ written = [i \in {"P1", "P2"} |-> None]
    /\ todo = <<>>

\* cls(initializer), the initializer built by the caller just before
Construct(cls, initializer) ==
    LET al == IF initializer.t \in {"dict", "list"} THEN Alloc(heap, initializer)
              ELSE [h |-> heap, v |-> initializer]
        r == __init__(al.h, cls, al.v)
    IN /\ nops < MaxConstructions
       /\ Len(facade) < 2
       /\ heap' = r.h
       /\ pre' = al.h
       /\ last' = [op |-> "construct", cls |-> cls, initializer |-> initializer,
                   raised |-> r.raised, made |-> r.data]
       /\ nops' = nops + 1
       /\ facade' = IF r.raised = "" THEN Append(facade, cls) ELSE facade
       /\ data' = IF r.raised = "" /\ Len(facade) = 0 THEN r.data ELSE data
       /\ twin' = IF r.raised = "" /\ Len(facade) = 1 THEN r.data ELSE twin
       /\ UNCHANGED <<written, todo>>

\* with_id on the first (f = 1) or the second (f = 2) facade
ConstructedWithId(f, v) ==
    /\ nops < MaxConstructions
    /\ f <= Len(facade)
    /\ heap' = with_id(heap, IF f = 1 THEN data ELSE twin, v)
    /\ pre' = heap
    /\ last' = [op |-> "with_id", cls |-> facade[f], initializer |-> None, raised |-> "",
                made |-> 0]
    /\ nops' = nops + 1
    /\ UNCHANGED <<facade, data, twin, written, todo>>

\* a writer of one member on the first or the second facade
ConstructedWrite(op, f, h) ==
    /\ nops < MaxConstructions
    /\ f <= Len(facade)
    /\ heap' = h
    /\ pre' = heap
    /\ last' = [op |-> op, cls |-> facade[f], initializer |-> None, raised |-> "", made |-> 0]
    /\ nops' = nops + 1
    /\ UNCHANGED <<facade, data, twin, written, todo>>

ConstructedWithExternalId(f, v) ==
    /\ f <= Len(facade) /\ facade[f] = "Asset"
    /\ ConstructedWrite("with_external_id", f,
                        with_external_id(heap, IF f = 1 THEN data ELSE twin, v))
ConstructedWithExternalUid(f, v) ==
    /\ f <= Len(facade) /\ facade[f] = "Asset"
    /\ ConstructedWrite("with_external_uid", f,
                        with_external_uid(heap, IF f = 1 THEN data ELSE twin, v))
ConstructedWithTierLevel(f, level) ==
    /\ f <= Len(facade) /\ facade[f] = "TierConfiguration"
    /\ ConstructedWrite("with_tier_level", f,
                        with_tier_level(heap, IF f = 1 THEN data ELSE twin, level))

ConstructNext ==
    \/ \E cls \in Classes : \E initializer \in Initializers : Construct(cls, initializer)
    \/ \E f \in {1, 2} : \E v \in {Str("ID-1"), Str("ID-2")} : ConstructedWithId(f, v)
    \/ \E f \in {1, 2} : ConstructedWithExternalId(f, Str("E-1"))
    \/ \E f \in {1, 2} : ConstructedWithExternalUid(f, Str("U-1"))
    \/ \E f \in {1, 2} : \E level \in {Integer(1), Integer(2)} : ConstructedWithTierLevel(f, level)

SpecConstruct == ConstructInit /\ [][ConstructNext]_vars

\* C24: constructing Request, Asset or TierConfiguration raises ValueError
\* exactly for an initializer that is neither a mapping nor null, and then
\* makes no facade and changes nothing; a null initializer gives a facade
\* over an empty document that did not exist before.
C24_Construction ==
    last.op = "construct" =>
        /\ last.raised = "ValueError" <=> last.initializer.t \notin {"dict", "none"}
        /\ last.raised \in {"", "ValueError"}
        /\ last.raised = "ValueError" =>
              /\ last.made = 0
              /\ heap = pre
        /\ last.raised = "" =>
              /\ last.made \in {data, twin} \ {0}
              /\ last.initializer.t = "dict" => Val(heap, Ref(last.made)) = last.initializer
              /\ last.initializer = None =>
                    /\ Val(heap, Ref(last.made)) = EmptyDoc
                    /\ last.made \notin 1..Len(pre)
                    /\ \A a \in 1..Len(pre) : Val(heap, Ref(a)) = Val(pre, Ref(a))

\* two facades were made from null initializers; the first was given an id
\* before the second was made, and the second wraps an empty document
C24_Witness ==
    /\ Len(facade) = 2
    /\ Val(heap, Ref(data)).m = ("id" :> Str("ID-1"))
    /\ Val(heap, Ref(twin)) = EmptyDoc
    /\ last.op = "construct"
    /\ last.initializer = None

----------------------------------------------------------------------------
(* Tiers and accounts.  with_tier and with_account take a mapping, or a    *)
(* string: 'random' asks make_tier for a made-up tier, any other string is *)
(* the id of a tier that has nothing else.  `faker` is what the Faker      *)
(* instance of one make_tier call answers, by method name.                 *)

MaxTierOps == 2

\* a dictionary literal, its members given in the order written as <<key, value>>
Literal(members) ==
    Ordered([k \in { members[i][1] : i \in 1..Len(members) } |->
                members[CHOOSE i \in 1..Len(members) :
                            /\ members[i][1] = k
                            /\ \A j \in i + 1..Len(members) : members[j][1] # k][2]],
            [i \in 1..Len(members) |-> members[i][1]])

\* helpers.make_tier(tier_type), the locale left out.  faker holds what the
\* Faker instance answers: a string per method, and for pyint the six
\* integers it draws, in the order of the calls (external_id, address_line1,
\* country_code, area_code, phone_number, extension)
make_tier(tier_type, faker) ==
    Literal(<<
        <<"name", Str(faker.company)>>,
        <<"type", Str(tier_type)>>,
        <<"external_id", Str(format_int(faker.pyint[1]))>>,
        <<"external_uid", Str(faker.uuid4)>>,
        <<"contact_info", Literal(<<
            <<"address_line1", Str(format_int(faker.pyint[2]) \o ", " \o faker.street_name)>>,
            <<"address_line2", Str(faker.secondary_address)>>,
            <<"city", Str(faker.city)>>,
            <<"state", Str(faker.state)>>,
            <<"postal_code", Str(faker.zipcode)>>,
            <<"country", Str(faker.country_code)>>,
            <<"contact", Literal(<<
                <<"first_name", Str(faker.first_name)>>,
                <<"last_name", Str(faker.last_name)>>,
                <<"email", Str(faker.company_email)>>,
                <<"phone_number", Literal(<<
                    <<"country_code", Str("+" \o format_int(faker.pyint[3]))>>,
                    <<"area_code", Str(format_int(faker.pyint[4]))>>,
                    <<"phone_number", Str(format_int(faker.pyint[5]))>>,
                    <<"extension", Str(format_int(faker.pyint[6]))>> >>)>> >>)>> >>)>> >>)

\* Request.with_assignee(assignee_id, assignee_name, assignee_email)
with_assignee(h, d, assignee_id, assignee_name, assignee_email) ==
    merge_member(h, d, "assignee",
                 Literal(<< <<"id", assignee_id>>, <<"name", assignee_name>>,
                            <<"email", assignee_email>> >>))

\* with_product(product_id, product_status)
with_product(h, d, product_id, product_status) ==
    merge_member(h, d, "product", Pair("id", product_id, "status", product_status))

\* list.clear()
ClearList(h, a) == [h EXCEPT ![a] = List(<<>>)]

\* tier = make_tier(tier_name) if tier == 'random' else {'id': tier}
tier_of_string(tier_name, new_tier, faker) ==
    IF new_tier = Str("random") THEN make_tier(tier_name, faker)
    ELSE Ordered("id" :> new_tier, <<"id">>)

\* a with_tier that stores the given tier in place of the one there
with_tier_replace(h, d, tier_name, new_tier, faker) ==
    LET h1 == IF "tiers" \in DOMAIN h[d].m THEN h
              ELSE SetKey(Append(h, NewDict), d, "tiers", Ref(Len(h) + 1))
        o == IF new_tier.t = "str"
             THEN Alloc(h1, tier_of_string(tier_name, new_tier, faker))
             ELSE [h |-> h1, v |-> new_tier]
    IN [h |-> SetKey(o.h, h1[d].m["tiers"].a, tier_name, o.v), raised |-> ""]

\* tiers[tier_name].update(merged), merged the outcome of merge(tiers[tier_name], tier)
\* on the heap h0: the method update is looked up before the merge is
\* computed, and only a mapping has it
update_tier(h0, cur, merged) ==
    IF ~IsDict(h0, cur) THEN [h |-> h0, raised |-> "AttributeError"]
    ELSE IF merged.raised # "" THEN [h |-> h0, raised |-> merged.raised]
    ELSE [h |-> UpdateInOrder(merged.h, cur.a, merged.h[merged.v.a].m, merged.h[merged.v.a].o),
          raised |-> ""]

\* the last two statements of with_tier, cur the value tiers holds for tier_name:
\* a string clears the tier (clear() needs a mapping or a list) and stands for
\* a made-up tier or for {'id': tier}; then the tier is merged into cur, which
\* must be a mapping to be updated (a list is left cleared)
with_tier_value(h, cur, tier_name, new_tier, faker) ==
    IF new_tier.t # "str" THEN update_tier(h, cur, merge_of(h, cur, new_tier))
    ELSE IF IsDict(h, cur)
    THEN update_tier(Clear(h, cur.a), cur,
                     merge_of(Alloc(Clear(h, cur.a), tier_of_string(tier_name, new_tier, faker)).h,
                              cur,
                              Alloc(Clear(h, cur.a), tier_of_string(tier_name, new_tier, faker)).v))
    ELSE IF IsList(h, cur) THEN [h |-> ClearList(h, cur.a), raised |-> "AttributeError"]
    ELSE [h |-> h, raised |-> "AttributeError"]

\* with_tier once the asset has a mapping `tiers` of tiers: the tier is
\* created empty when tiers has none of that name
with_tier_in(h, tiers, tier_name, new_tier, faker) ==
    IF tier_name \in DOMAIN h[tiers].m
    THEN with_tier_value(h, h[tiers].m[tier_name], tier_name, new_tier, faker)
    ELSE with_tier_value(SetKey(Append(h, NewDict), tiers, tier_name, Ref(Len(h) + 1)),
                         Ref(Len(h) + 1), tier_name, new_tier, faker)

\* with_tier from the value stored under 'tiers': `tier_name not in tiers`
\* needs a container (TypeError), tiers.update and tiers.get a mapping
\* (AttributeError)
with_tier_stored(h, tiers, tier_name, new_tier, faker) ==
    IF IsDict(h, tiers) THEN with_tier_in(h, tiers.a, tier_name, new_tier, faker)
    ELSE IF tiers.t = "str" \/ IsList(h, tiers) THEN [h |-> h, raised |-> "AttributeError"]
    ELSE [h |-> h, raised |-> "TypeError"]

\* Asset.with_tier(tier_name, tier): tier a string or a value the caller
\* built; answers [h, raised]
with_tier(h, d, tier_name, new_tier, faker) ==
    IF "tiers" \in DOMAIN h[d].m
    THEN with_tier_stored(h, h[d].m["tiers"], tier_name, new_tier, faker)
    ELSE with_tier_in(SetKey(Append(h, NewDict), d, "tiers", Ref(Len(h) + 1)), Len(h) + 1,
                      tier_name, new_tier, faker)

\* Asset.with_tier_customer, with_tier_tier1, with_tier_tier2
with_tier_customer(h, d, customer, faker) == with_tier(h, d, "customer", customer, faker)
with_tier_tier1(h, d, tier1, faker) == with_tier(h, d, "tier1", tier1, faker)
with_tier_tier2(h, d, tier2, faker) == with_tier(h, d, "tier2", tier2, faker)

\* TierConfiguration.with_account(account): a string or a value the caller
\* built.  A string clears the stored account first (an account that is no
\* mapping and no list has no clear()); merge needs a mapping for account
with_account(h, d, new_account, faker) ==
    IF new_account.t # "str" THEN merge_member(h, d, "account", new_account)
    ELSE IF "account" \notin DOMAIN h[d].m
    THEN merge_member(h, d, "account", tier_of_string("reseller", new_account, faker))
    ELSE IF IsDict(h, h[d].m["account"])
    THEN merge_member(Clear(h, h[d].m["account"].a), d, "account",
                      tier_of_string("reseller", new_account, faker))
    ELSE IF IsList(h, h[d].m["account"])
    THEN [h |-> ClearList(h, h[d].m["account"].a), raised |-> "TypeError"]
    ELSE [h |-> h, raised |-> "AttributeError"]

\* what two Faker instances answer
Fakers ==
    { [company |-> "Acme", uuid4 |-> "0b6e2c1e-0000-4000-8000-000000000001",
       street_name |-> "Main", secondary_address |-> "Apt. 1", city |-> "Springfield",
       state |-> "Ohio", zipcode |-> "12345", country_code |-> "US", first_name |-> "Ann",
       last_name |-> "Lee", company_email |-> "ann@acme.com",
       pyint |-> <<1000000, 100, 1, 1, 1, 1>>],
      [company |-> "Globex", uuid4 |-> "0b6e2c1e-0000-4000-8000-000000000002",
       street_name |-> "High", secondary_address |-> "Suite 2", city |-> "Paris",
       state |-> "Texas", zipcode |-> "54321", country_code |-> "FR", first_name |-> "Bob",
       last_name |-> "Ray", company_email |-> "bob@globex.com",
       pyint |-> <<9999999, 999, 99, 7, 999999, 100>>] }

\* a tier as the platform sends it, with a sequence and nested mappings
TaggedTier ==
    Dict(("id" :> Str("TA-1")) @@ ("name" :> Str("Customer"))
         @@ ("tags" :> List(<<Str("a")>>))
         @@ ("contact_info" :>
                Dict(("city" :> Str("Springfield"))
                     @@ ("contact" :> Dict(("first_name" :> Str("Ann"))
                                           @@ ("last_name" :> Str("Lee")))))))
TiersDoc ==
    Dict(("id" :> Str("AS-1"))
         @@ ("tiers" :> Dict(("customer" :> TaggedTier) @@ ("tier1" :> Dict("id" :> Str("TA-2"))))))
AccountDoc == Dict(("id" :> Str("TC-1")) @@ ("account" :> TaggedTier))

TierDocs(cls) ==
    CASE cls = "Request" -> {EmptyDoc, RequestDoc}
      [] cls = "Asset" -> {EmptyDoc, TiersDoc, Dict("tiers" :> EmptyDoc)}
      [] cls = "TierConfiguration" -> {EmptyDoc, AccountDoc}

\* the tiers callers pass: mappings, and strings
TierMappings ==
    { Dict("id" :> Str("TA-9")),
      Dict(("id" :> Str("TA-9"))
           @@ ("contact_info" :> Dict(("city" :> Str("Paris"))
                                      @@ ("contact" :> Dict("first_name" :> Str("Bob")))))),
      Dict(("name" :> None) @@ ("tags" :> List(<<Str("b")>>))) }
TierStrings == {Str("TA-7"), Str("")}
TierNames == {"customer", "tier1", "tier2"}

TiersInit ==
    \E cls \in Classes : \E doc \in TierDocs(cls) :
        LET r == Alloc(<<>>, doc)
        IN /\ heap = r.h
           /\ pre = r.h
           /\ facade = cls
           /\ data = r.v.a
           /\ last = [op |-> "init", name |-> "", args |-> <<>>, raised |-> "", repeated |-> FALSE]
           /\ nops = 0
           /\ written = [i \in {"P1", "P2"} |-> None]
           /\ twin = 0
           /\ todo = <<>>

\* the Faker of a call that draws nothing
NoFaker == <<>>

\* a call of a writer with the outcome r; `repeated` says that the call before it was the same
\* call with the same arguments
TierWrite(op, name, args, r) ==
    /\ nops < MaxTierOps
    /\ heap' = r.h
    /\ pre' = heap
    /\ last' = [op |-> op, name |-> name, args |-> args, raised |-> r.raised,
                repeated |-> (last.op = op /\ last.name = name /\ last.args = args)]
    /\ nops' = nops + 1
    /\ UNCHANGED <<facade, data, written, twin, todo>>

\* asset.with_tier(name, tier), the mapping built by the caller
WithTier(name, new_tier) ==
    LET al == Alloc(heap, new_tier)
    IN /\ facade = "Asset"
       /\ TierWrite("with_tier", name, <<new_tier>>,
                    with_tier(al.h, data, name, al.v, NoFaker))

\* asset.with_tier_customer(tier), asset.with_tier_tier1(tier), asset.with_tier_tier2(tier)
WithTierOf(name, new_tier) ==
    LET al == Alloc(heap, new_tier)
    IN /\ facade = "Asset"
       /\ TierWrite("with_tier", name, <<new_tier>>,
                    CASE name = "customer" -> with_tier_customer(al.h, data, al.v, NoFaker)
                      [] name = "tier1" -> with_tier_tier1(al.h, data, al.v, NoFaker)
                      [] name = "tier2" -> with_tier_tier2(al.h, data, al.v, NoFaker))

\* asset.with_tier(name, 'random')
WithTierRandom(name, faker) ==
    /\ facade = "Asset"
    /\ TierWrite("with_tier", name, <<Str("random"), faker>>,
                 with_tier(heap, data, name, Str("random"), faker))

\* tier_configuration.with_account(account)
WithAccount(new_account) ==
    LET al == Alloc(heap, new_account)
    IN /\ facade = "TierConfiguration"
       /\ TierWrite("with_account", "account", <<new_account>>,
                    with_account(al.h, data, al.v, NoFaker))

\* tier_configuration.with_account('random'), and with_account()
WithAccountRandom(faker) ==
    /\ facade = "TierConfiguration"
    /\ TierWrite("with_account", "account", <<Str("random"), faker>>,
                 with_account(heap, data, Str("random"), faker))

\* the writers of the other nested mappings
TierWithMarketplace(wid, wname) ==
    TierWrite("with_marketplace", "marketplace", <<wid, wname>>,
              with_marketplace(heap, data, wid, wname))
TierWithAssignee(wid) ==
    /\ facade = "Request"
    /\ TierWrite("with_assignee", "assignee", <<wid, Str("Name"), Str("a@b.c")>>,
                 with_assignee(heap, data, wid, Str("Name"), Str("a@b.c")))
TierWithProduct(wid) ==
    /\ facade \in {"Asset", "TierConfiguration"}
    /\ TierWrite("with_product", "product", <<wid, Str("published")>>,
                 with_product(heap, data, wid, Str("published")))
TierWithConnection(provider) ==
    LET p == Alloc(heap, provider)
    IN /\ facade \in {"Asset", "TierConfiguration"}
       /\ TierWrite("with_connection", "connection", <<provider>>,
                    with_connection(p.h, data, Str("CT-2"), Str("test"), p.v, None, None))
TierWithConnectionVendor(wid, wname) ==
    /\ facade \in {"Asset", "TierConfiguration"}
    /\ TierWrite("with_connection_vendor", "connection", <<wid, wname>>,
                 with_connection_vendor(heap, data, wid, wname))

TiersNext ==
    \/ \E tn \in TierNames : \E t \in TierMappings \cup TierStrings : WithTier(tn, t)
    \/ \E tn \in {"customer", "tier1", "tier2"} :
          \E t \in TierMappings \cup TierStrings : WithTierOf(tn, t)
    \/ \E tn \in TierNames : \E faker \in Fakers : WithTierRandom(tn, faker)
    \/ \E t \in TierMappings \cup TierStrings : WithAccount(t)
    \/ \E faker \in Fakers : WithAccountRandom(faker)
    \/ \E wid \in WriterIds : \E wname \in WriterNames : TierWithMarketplace(wid, wname)
    \/ \E wid \in WriterIds : TierWithAssignee(wid)
    \/ \E wid \in WriterIds : TierWithProduct(wid)
    \/ \E p \in RoleInputs : TierWithConnection(p)
    \/ \E wid \in WriterIds : \E wname \in WriterNames : TierWithConnectionVendor(wid, wname)

SpecTiers == TiersInit /\ [][TiersNext]_vars

\* whether the last call asked for a made-up tier
Random == last.args # <<>> /\ last.args[1] = Str("random")

\* C26: calling the same nested-object writer twice in a row with the same
\* arguments, a mapping with a sequence-valued field included, leaves the
\* document equal to the one after the first call.
C26_WritersAreIdempotent ==
    (last.repeated /\ ~Random) => Doc = PreDoc

\* the tier the last call wrote, the empty mapping when the document has none
TierAt(doc) ==
    IF last.op = "with_account" THEN Sub(doc, "account")
    ELSE Sub(Sub(doc, "tiers"), last.name)

\* m merged into t as the claim words it: a field of m takes m's value, a
\* mapping on both sides is merged field by field, the rest of t is kept
RECURSIVE ClaimedMerge(_, _)
ClaimedMerge(t, m) ==
    Dict([k \in (DOMAIN t.m) \cup (DOMAIN m.m) |->
            IF k \notin DOMAIN m.m THEN t.m[k]
            ELSE IF k \notin DOMAIN t.m THEN m.m[k]
            ELSE IF t.m[k].t = "dict" /\ m.m[k].t = "dict" THEN ClaimedMerge(t.m[k], m.m[k])
            ELSE m.m[k]])

\* C29: with_tier(name, m) and with_account(m) with a mapping m deep-merge m
\* into the tier: the fields m does not mention keep their values at any
\* depth, the fields of m take m's values, the tier and the tiers mapping
\* are created if absent and the other tiers are unchanged; with a string s
\* other than 'random' the tier is left equal to exactly {id: s}.
C29_TierMerge ==
    (last.op \in {"with_tier", "with_account"} /\ ~Random) =>
        /\ TierAt(Doc) = IF last.args[1].t = "dict"
                         THEN ClaimedMerge(TierAt(PreDoc), last.args[1])
                         ELSE Dict("id" :> last.args[1])
        /\ last.op = "with_tier" =>
              /\ "tiers" \in DOMAIN Doc.m
              /\ DOMAIN Doc.m["tiers"].m = DOMAIN Sub(PreDoc, "tiers").m \cup {last.name}
              /\ \A n \in DOMAIN Sub(PreDoc, "tiers").m \ {last.name} :
                    Doc.m["tiers"].m[n] = PreDoc.m["tiers"].m[n]
              /\ \A k \in DOMAIN PreDoc.m \ {"tiers"} : Field(Doc, k) = PreDoc.m[k]
        /\ last.op = "with_account" =>
              /\ "account" \in DOMAIN Doc.m
              /\ \A k \in DOMAIN PreDoc.m \ {"account"} : Field(Doc, k) = PreDoc.m[k]

----------------------------------------------------------------------------
(* Claims about the item upsert, checked under SpecLookup, where with_item *)
(* is called with an item id and an mpn and nothing else.                  *)

\* C27: with_item called with an id already in items adds no item, keeps
\* the item's position and changes only the fields whose arguments were
\* supplied: the other fields, the quantity and the params list among them,
\* keep their previous values.
C27_ItemUpsertIsPartialPatch ==
    (/\ last.op = "with_item"
     /\ DocWellKeyed(PreDoc)
     /\ IndexesOf(DocItems(PreDoc), last.args["item_id"]) # {}) =>
        LET old == DocItems(PreDoc)
            new == DocItems(Doc)
            i == CHOOSE x \in IndexesOf(old, last.args["item_id"]) :
                    \A y \in IndexesOf(old, last.args["item_id"]) : x <= y
        IN /\ Len(new) = Len(old)
           /\ \A j \in (1..Len(old)) \ {i} : new[j] = old[j]
           /\ Field(new[i], "id") = last.args["item_id"]
           /\ Field(new[i], "mpn") = Str("M1")
           /\ \A f \in DOMAIN old[i].m \ {"mpn"} : Field(new[i], f) = old[i].m[f]

----------------------------------------------------------------------------
(* Claims about the configuration parameters, checked under SpecParams.    *)

\* the argument of the last upsert that field f of a parameter is written from
SuppliedValue(f) ==
    last.args.m[CASE f = "structured_value" -> "value"
                  [] f = "type" -> "value_type"
                  [] OTHER -> f]

\* the elements of a list of parameters that have another id, in order
Others(l, pid) == SelectSeq(l, LAMBDA e : e.m["id"] # pid)

\* C28: with_configuration_param creates the configuration mapping and its
\* params list only when they are absent, upserts by id inside
\* configuration.params (one element per id, holding the values of the
\* latest call), and changes neither the top-level params nor any other key
\* of an existing configuration mapping; with_param and with_params never
\* change configuration.params.
C28_ConfigurationParamsAreSeparate ==
    /\ (last.op = "with_configuration_param" /\ last.raised = "") =>
          LET pid == last.args.m["param_id"]
              old == DocConfigurationParams(PreDoc)
              new == DocConfigurationParams(Doc)
          IN /\ "configuration" \in DOMAIN Doc.m
             /\ "params" \in DOMAIN Doc.m["configuration"].m
             /\ Cardinality(IndexesOf(new, pid)) = 1
             /\ Len(new) = IF IndexesOf(old, pid) = {} THEN Len(old) + 1 ELSE Len(old)
             /\ IndexesOf(old, pid) # {} => IndexesOf(new, pid) = IndexesOf(old, pid)
             /\ Others(new, pid) = Others(old, pid)
             /\ \A f \in PatchFields :
                   Supplied(f) => FieldOf(new, pid, f) = SuppliedValue(f)
             /\ DOMAIN Doc.m = DOMAIN PreDoc.m \cup {"configuration"}
             /\ \A k \in DOMAIN PreDoc.m \ {"configuration"} : Doc.m[k] = PreDoc.m[k]
             /\ "configuration" \in DOMAIN PreDoc.m =>
                   /\ DOMAIN Doc.m["configuration"].m
                         = DOMAIN PreDoc.m["configuration"].m \cup {"params"}
                   /\ \A k \in DOMAIN PreDoc.m["configuration"].m \ {"params"} :
                         Doc.m["configuration"].m[k] = PreDoc.m["configuration"].m[k]
    /\ last.op \in {"with_param", "with_params"} =>
          Field(Doc, "configuration") = Field(PreDoc, "configuration")

\* a second upsert of configuration parameter P1 on a document that has
\* parameters of its own and a configuration with an id: one P1, the new
\* value, and everything else as it was
C28_Witness ==
    /\ last.op = "with_configuration_param"
    /\ nops = 2
    /\ last.args.m = (("param_id" :> P1) @@ ("value" :> Str("B")))
    /\ FieldOf(DocConfigurationParams(PreDoc), P1, "value") = Str("A")
    /\ FieldOf(DocConfigurationParams(Doc), P1, "value") = Str("B")
    /\ Cardinality(IndexesOf(DocConfigurationParams(Doc), P1)) = 1
    /\ DocParams(Doc) # <<>>
    /\ DocParams(Doc) = DocParams(PreDoc)
    /\ Field(Doc.m["configuration"], "id") = Str("TC-1")

----------------------------------------------------------------------------
(* The facades of a request's asset and tier configuration.  `twin` is the *)
(* mapping wrapped by the facade the caller holds (0: none); `written`     *)
(* keeps its class and whether the request was given that facade's mapping *)
(* since: `held` when the key was there as the facade was handed out,      *)
(* `mapped` when a mapping was stored under it; both after with_asset /    *)
(* with_tier_configuration was called with the facade.                     *)

MaxAliasOps == 4

AliasInit ==
    \E doc \in {EmptyDoc, RequestDoc, ConfigurationDoc, NullObjectsDoc, ScalarObjectsDoc} :
        LET r == Alloc(<<>>, doc)
        IN /\ heap = r.h
           /\ pre = r.h
           /\ facade = "Request"
           /\ data = r.v.a
           /\ last = [op |-> "init", args |-> <<>>]
           /\ nops = 0
           /\ written = [cls |-> "", held |-> FALSE, mapped |-> FALSE]
           /\ twin = 0
           /\ todo = <<>>

AliasStep(op, args, h, t, w) ==
    /\ nops < MaxAliasOps
    /\ heap' = h
    /\ pre' = heap
    /\ twin' = t
    /\ written' = w
    /\ last' = [op |-> op, args |-> args]
    /\ nops' = nops + 1
    /\ UNCHANGED <<facade, data, todo>>

\* the key of the request a facade of class cls is stored under
ObjectKey(cls) == IF cls = "Asset" THEN "asset" ELSE "configuration"

\* a facade of class cls was handed out by the request, r the call's outcome:
\* a call that raises gives the caller nothing, the facade held stays
Take(op, cls, r) ==
    IF r.raised # "" THEN AliasStep(op, <<r.raised>>, r.h, twin, written)
    ELSE AliasStep(op, <<r.raised>>, r.h, r.v.a,
                   [cls |-> cls,
                    held |-> ObjectKey(cls) \in DOMAIN heap[data].m,
                    mapped |-> /\ ObjectKey(cls) \in DOMAIN heap[data].m
                               /\ IsDict(heap, heap[data].m[ObjectKey(cls)])])

\* a = request.asset()
TakeAsset == Take("asset", "Asset", asset(heap, data))

\* t = request.tier_configuration()
TakeTierConfiguration ==
    Take("tier_configuration", "TierConfiguration", tier_configuration(heap, data))

\* a = Asset(), t = TierConfiguration()
NewFacade(cls) ==
    LET r == __init__(heap, cls, None)
    IN AliasStep("new", <<cls>>, r.h, r.data, [cls |-> cls, held |-> FALSE, mapped |-> FALSE])

\* a.with_id(v), t.with_id(v)
AliasWithId(v) ==
    /\ twin # 0
    /\ AliasStep("alias_with_id", <<v>>, with_id(heap, twin, v), twin, written)

\* a.with_param(param_id, v), t.with_param(param_id, v)
AliasWithParam(pid, v) ==
    /\ twin # 0
    /\ AliasStep("alias_with_param", <<pid, v>>,
                 with_param(heap, twin, written.cls, ("param_id" :> pid) @@ ("value" :> v)).h,
                 twin, written)

\* request.with_asset(a): asset.raw() is stored
RequestWithAsset ==
    /\ twin # 0
    /\ written.cls = "Asset"
    /\ AliasStep("with_asset", <<>>, with_asset(heap, data, raw(heap, twin, FALSE).v), twin,
                 [written EXCEPT !.held = TRUE, !.mapped = TRUE])

\* request.with_tier_configuration(t): configuration.raw() is stored
RequestWithTierConfiguration ==
    /\ twin # 0
    /\ written.cls = "TierConfiguration"
    /\ AliasStep("with_tier_configuration", <<>>,
                 with_tier_configuration(heap, data, raw(heap, twin, FALSE).v), twin,
                 [written EXCEPT !.held = TRUE, !.mapped = TRUE])

\* request.without(key)
RequestWithout(key) ==
    AliasStep("without", <<key>>, without(heap, data, key), twin,
              IF key = ObjectKey(written.cls)
              THEN [written EXCEPT !.held = FALSE, !.mapped = FALSE] ELSE written)

AliasNext ==
    \/ TakeAsset
    \/ TakeTierConfiguration
    \/ \E cls \in {"Asset", "TierConfiguration"} : NewFacade(cls)
    \/ \E v \in {Str("ID-1"), Str("ID-2")} : AliasWithId(v)
    \/ AliasWithParam(P1, Str("B"))
    \/ RequestWithAsset
    \/ RequestWithTierConfiguration
    \/ \E key \in {"asset", "configuration"} : RequestWithout(key)

SpecAlias == AliasInit /\ [][AliasNext]_vars

\* what a facade handed out over the key of the last call must wrap
TakenKey == IF last.op = "asset" THEN "asset" ELSE "configuration"

\* C30, as the specification states it: asset() and tier_configuration()
\* answer a facade that wraps the request's own sub-mapping when the key is
\* there and do not add the key when it is not; a mutation through a facade
\* handed out with the key present, or given to with_asset /
\* with_tier_configuration, shows in the request, and a mutation through any
\* other facade leaves the request as it was.
C30_RequestFacades ==
    LET key == ObjectKey(written.cls)
    IN /\ last.op \in {"asset", "tier_configuration"} =>
             /\ last.args = <<"">>
             /\ Doc = PreDoc
             /\ Val(heap, Ref(twin)) = Sub(Doc, key)
             /\ written.held <=> key \in DOMAIN Doc.m
       /\ last.op \in {"with_asset", "with_tier_configuration"} =>
             /\ Field(Doc, key) = Val(heap, Ref(twin))
             /\ \A k \in DOMAIN PreDoc.m \ {key} : Field(Doc, k) = PreDoc.m[k]
       /\ last.op \in {"alias_with_id", "alias_with_param"} =>
             IF written.held
             THEN /\ Field(Doc, key) = Val(heap, Ref(twin))
                  /\ last.op = "alias_with_id" => Field(Sub(Doc, key), "id") = last.args[1]
                  /\ last.op = "alias_with_param" =>
                        FieldOf(DocParams(Sub(Doc, key)), last.args[1], "value") = last.args[2]
                  /\ \A k \in DOMAIN PreDoc.m \ {key} : Field(Doc, k) = PreDoc.m[k]
             ELSE Doc = PreDoc

\* C30, amended: asset() and tier_configuration() raise ValueError, hand out
\* nothing and change nothing when the key holds a value that is neither a
\* mapping nor null; otherwise they leave the request as it was and answer a
\* facade that wraps the request's own sub-mapping when the key holds a
\* mapping, and a new empty mapping when the key is absent or holds null.  A
\* mutation through a facade handed out over a stored mapping, or given to
\* with_asset / with_tier_configuration, shows in the request; a mutation
\* through any other facade leaves the request as it was.
C30_RequestFacadesOverMappings ==
    LET key == ObjectKey(written.cls)
    IN /\ last.op \in {"asset", "tier_configuration"} =>
             /\ Doc = PreDoc
             /\ last.args = <<"ValueError">>
                   <=> Field(Doc, TakenKey).t \notin {"absent", "none", "dict"}
             /\ last.args \in {<<"">>, <<"ValueError">>}
             /\ last.args = <<"ValueError">> => heap = pre
             /\ last.args = <<"">> =>
                   /\ key = TakenKey
                   /\ written.mapped <=> Field(Doc, key).t = "dict"
                   /\ Val(heap, Ref(twin)) = IF written.mapped THEN Doc.m[key] ELSE EmptyDoc
                   /\ written.mapped => heap[data].m[key] = Ref(twin)
                   /\ ~written.mapped => twin \notin 1..Len(pre)
       /\ last.op \in {"with_asset", "with_tier_configuration"} =>
             /\ Field(Doc, key) = Val(heap, Ref(twin))
             /\ \A k \in DOMAIN PreDoc.m \ {key} : Field(Doc, k) = PreDoc.m[k]
       /\ last.op \in {"alias_with_id", "alias_with_param"} =>
             IF written.mapped
             THEN /\ Field(Doc, key) = Val(heap, Ref(twin))
                  /\ last.op = "alias_with_id" => Field(Sub(Doc, key), "id") = last.args[1]
                  /\ last.op = "alias_with_param" =>
                        FieldOf(DocParams(Sub(Doc, key)), last.args[1], "value") = last.args[2]
                  /\ \A k \in DOMAIN PreDoc.m \ {key} : Field(Doc, k) = PreDoc.m[k]
             ELSE Doc = PreDoc

\* a request whose asset is null handed out an asset facade, an id written
\* through it did not reach the request, the facade was then given to
\* with_asset, and the next id written through it is in the request
C30_Witness ==
    /\ nops = 4
    /\ last.op = "alias_with_id"
    /\ written = [cls |-> "Asset", held |-> TRUE, mapped |-> TRUE]
    /\ Field(Doc, "asset") = Dict("id" :> Str("ID-2"))
    /\ Field(PreDoc, "asset") = Dict("id" :> Str("ID-1"))
    /\ Field(Doc, "configuration") = None

====
